---- MODULE Spec2Model ----
(***************************************************************************)
(* Reconciliation of canonical ticket candidates against the remote issue  *)
(* store (compare_and_export.py).  Python values are tagged tuples:        *)
(*   None -> <<"none">>, int n -> <<"int", n>>, str -> <<"str", chars>>,   *)
(*   list -> <<"list", elems>>, dict -> <<"dict", record>>.                *)
(* A string is a sequence of one-character strings, so that upper() and    *)
(* substring containment are computed character by character.              *)
(***************************************************************************)
EXTENDS Integers, Sequences, FiniteSets, TLC

VARIABLES candFile, issues_map, remote, remoteAtStart, pc, candidates, scanned,
          fully_correct, exported, ambiguous, results, calls, outFile,
          exitStatus

\* parse_local_ticket_files.py: the workspace directory, the position of
\* main's loops, its local and module-level collections, the written file,
\* the number of main() calls of the process and the log of the
\* normalize_ticket calls (argument, result).
VARIABLES files, visit, seen_titles, candidate_list, errors, pcParse, runs,
          outCandidates, normLog

compareVars == <<candFile, issues_map, remote, remoteAtStart, pc, candidates, scanned,
                 fully_correct, exported, ambiguous, results, calls, outFile,
                 exitStatus>>

parseVars == <<files, visit, seen_titles, candidate_list, errors, pcParse, runs,
               outCandidates, normLog>>

\* scripts_archive/create_all_remaining.py: the ticket list, main's grouping
\* and loop positions, its collections and counter, the total it prints, and
\* the number of create_issue calls that returned an issue number.
VARIABLES remaining_tickets, parent_children, grp, child, child_nums, total_created,
          pcCreate, reported, created_ok

createVars == <<remaining_tickets, parent_children, grp, child, child_nums, total_created,
                pcCreate, reported, created_ok>>

vars == <<compareVars, parseVars, createVars>>

\* ------------------------------------------------------------ bounds
MaxCands == 2

\* Files in the workspace directory.
MaxFiles == 2

\* Tickets of the creation script.
MaxTickets == 4

\* Runs of the parser.
MaxRuns == 2

MaxRemote == 2

\* ------------------------------------------------------------ Python values
None == <<"none">>

PyInt(n) == <<"int", n>>

PyStr(s) == <<"str", s>>

PyList(s) == <<"list", s>>

PyTuple(s) == <<"tuple", s>>

\* A dict literal: the sequence of its <<key, value>> items in source order;
\* a key is the character sequence of a str key.
PyDict(items) == <<"dictlit", items>>

\* The float whole + 0.frac; frac is the digit sequence after the point
\* without trailing zeros.
PyFloat(whole, frac) == <<"float", whole, frac>>

IsNone(v) == v[1] = "none"

IsInt(v) == v[1] = "int"

\* Python truth value of a tagged value (used by `x or y` and `if not x`).
Truthy(v) ==
  CASE v[1] = "none" -> FALSE
    [] v[1] = "int"  -> v[2] # 0
    [] v[1] = "str"  -> v[2] # <<>>
    [] v[1] = "list" -> v[2] # <<>>
    [] v[1] = "tuple" -> v[2] # <<>>
    [] v[1] = "dictlit" -> v[2] # <<>>
    [] v[1] = "float" -> ~(v[2] = 0 /\ v[3] = <<>>)
    [] OTHER         -> TRUE

\* Python `a or b`.
Or(a, b) == IF Truthy(a) THEN a ELSE b

\* dict.get(key) on a candidate record: None when the key is absent.
Get(d, k) == IF k \in DOMAIN d THEN d[k] ELSE None

\* ------------------------------------------------------------ strings
LowerToUpper ==
  [ch \in {"a","b","c","d","e","f","g","h","i","j","k","l","m",
           "n","o","p","q","r","s","t","u","v","w","x","y","z"} |->
     CASE ch = "a" -> "A" [] ch = "b" -> "B" [] ch = "c" -> "C"
       [] ch = "d" -> "D" [] ch = "e" -> "E" [] ch = "f" -> "F"
       [] ch = "g" -> "G" [] ch = "h" -> "H" [] ch = "i" -> "I"
       [] ch = "j" -> "J" [] ch = "k" -> "K" [] ch = "l" -> "L"
       [] ch = "m" -> "M" [] ch = "n" -> "N" [] ch = "o" -> "O"
       [] ch = "p" -> "P" [] ch = "q" -> "Q" [] ch = "r" -> "R"
       [] ch = "s" -> "S" [] ch = "t" -> "T" [] ch = "u" -> "U"
       [] ch = "v" -> "V" [] ch = "w" -> "W" [] ch = "x" -> "X"
       [] ch = "y" -> "Y" [] ch = "z" -> "Z"]

\* str.upper()
Upper(s) ==
  [i \in 1..Len(s) |-> IF s[i] \in DOMAIN LowerToUpper THEN LowerToUpper[s[i]] ELSE s[i]]

\* Python `sub in s` for strings.
Contains(sub, s) ==
  \E i \in 0..(Len(s) - Len(sub)) : SubSeq(s, i + 1, i + Len(sub)) = sub

REQUIRE_FIELDS ==
  << <<"R","E","Q","U","I","R","E","S">>,
     <<"P","R","O","V","I","D","E","S">>,
     <<"P","R","I","O","R","I","T","Y">> >>

\* Variant: the markers are looked for without upper-casing the body.
body_has_required_fields_CaseSensitive(body) ==
  LET ub == IF Truthy(body) THEN body[2] ELSE <<>>
  IN  \A f \in 1..Len(REQUIRE_FIELDS) : Contains(REQUIRE_FIELDS[f], ub)

\* Variant: one marker is enough.
body_has_required_fields_AnyMarker(body) ==
  LET ub == IF Truthy(body) THEN Upper(body[2]) ELSE <<>>
  IN  \E f \in 1..Len(REQUIRE_FIELDS) : Contains(REQUIRE_FIELDS[f], ub)

\* body is a tagged value: None or a str.
body_has_required_fields(body) ==
  LET ub == IF Truthy(body) THEN Upper(body[2]) ELSE <<>>
  IN  \A f \in 1..Len(REQUIRE_FIELDS) : Contains(REQUIRE_FIELDS[f], ub)

\* issue_map is a function from key strings to tagged numbers.
map_parent_canonical_to_number(parent_canonical, issue_map) ==
  IF ~Truthy(parent_canonical) THEN None
  ELSE IF IsInt(parent_canonical) THEN parent_canonical
  ELSE IF parent_canonical[1] = "str" /\ parent_canonical[2] \in DOMAIN issue_map
       THEN issue_map[parent_canonical[2]]
  ELSE None

\* ------------------------------------------------------------ remote calls
GhLimit == 500

Min(a, b) == IF a < b THEN a ELSE b

\* Possible results of `gh issue list ... --state all --limit 500` against
\* the store: success with the first GhLimit tickets, a non-zero exit, or
\* output that json.loads rejects.
GhIssueListRuns(store) ==
  { [returncode |-> 0, stdout |-> <<"json", SubSeq(store, 1, Min(Len(store), GhLimit))>>],
    [returncode |-> 1, stdout |-> <<"bad">>],
    [returncode |-> 0, stdout |-> <<"bad">>] }

\* Variant: titles are compared without regard to letter case.
gh_issue_list_by_title_IgnoreCase(title, p) ==
  IF p.returncode # 0 THEN <<"raise">>
  ELSE IF p.stdout[1] # "json" THEN <<"raise">>
  ELSE LET arr == p.stdout[2]
       IN  <<"ok", SelectSeq(arr, LAMBDA item : Upper(item.title[2]) = Upper(title[2]))>>

\* <<"raise">> when the call raises, <<"ok", matches>> otherwise.
gh_issue_list_by_title(title, p) ==
  IF p.returncode # 0 THEN <<"raise">>
  ELSE IF p.stdout[1] # "json" THEN <<"raise">>
  ELSE LET arr == p.stdout[2]
       IN  <<"ok", SelectSeq(arr, LAMBDA item : item.title = title)>>

\* Parent numbers the sub-issue extension can report.
ParentNumbers == {7, 42}

\* Possible results of `gh sub-issue list <n> --relation parent --json parent`.
GhSubIssueRuns ==
  { [returncode |-> 1, stdout |-> <<"bad">>],
    [returncode |-> 0, stdout |-> <<"bad">>],
    [returncode |-> 0, stdout |-> <<"json", <<>> >>],
    [returncode |-> 0, stdout |-> <<"json", << [parent |-> None] >> >>],
    [returncode |-> 0, stdout |-> <<"object">>] }
  \cup
  { [returncode |-> 0,
     stdout |-> <<"json", << [parent |-> <<"dict", [number |-> PyInt(n)]>>] >> >>]
    : n \in ParentNumbers }

\* <<"raise">> when the call raises (the output is a JSON object, so that
\* obj[0] fails), the returned value otherwise.
gh_sub_issue_parent(p) ==
  IF p.returncode # 0 THEN None
  ELSE IF p.stdout[1] = "bad" THEN None
  ELSE IF p.stdout[1] = "object" THEN <<"raise">>
  ELSE LET obj == p.stdout[2]
       IN  IF obj = <<>> THEN None
           ELSE LET parent == obj[1].parent
                IN  IF ~Truthy(parent) THEN None
                    ELSE parent[2].number

\* Variant: an exception of the parent lookup is not caught.
ParentLookup_NoCatch(p) == gh_sub_issue_parent(p)

\* main's call of gh_sub_issue_parent: any exception gives parent_num = None.
ParentLookup(p) ==
  LET r == gh_sub_issue_parent(p)
  IN  IF r[1] = "raise" THEN None ELSE r

\* The lookup did not yield a parent number: non-zero exit, unparsable
\* output, exception, empty result or missing parent entry.
LookupFailed(p) ==
  \/ p.returncode # 0
  \/ p.stdout[1] # "json"
  \/ p.stdout[2] = <<>>
  \/ p.stdout[2][1].parent[1] # "dict"

\* ------------------------------------------------------------ export records
\* Variant: every export record gets a 'notes' block.
ExportRecord_AlwaysNotes(c, expected_parent_num) ==
  [ issue_number        |-> None,
    canonical_id        |-> Get(c, "canonical_id"),
    title               |-> Get(c, "title"),
    body                |-> Or(Get(c, "body"), PyStr(<<>>)),
    labels              |-> Or(Get(c, "labels"), PyList(<<>>)),
    state               |-> PyStr(<<"p","l","a","n","n","e","d">>),
    parent_issue_number |-> expected_parent_num,
    requires            |-> Or(Get(c, "requires"), PyStr(<<>>)),
    provides            |-> Or(Get(c, "provides"), PyStr(<<>>)),
    points              |-> Or(Get(c, "points"), None),
    priority            |-> Or(Get(c, "priority"), None),
    created_at          |-> None,
    url                 |-> None,
    notes               |-> [ remote_issue_number      |-> None,
                              remote_parent_number     |-> None,
                              body_has_required_fields |-> FALSE ] ]

\* The record appended for a Missing or an Ambiguous candidate.
ExportRecord(c, expected_parent_num) ==
  [ issue_number        |-> None,
    canonical_id        |-> Get(c, "canonical_id"),
    title               |-> Get(c, "title"),
    body                |-> Or(Get(c, "body"), PyStr(<<>>)),
    labels              |-> Or(Get(c, "labels"), PyList(<<>>)),
    state               |-> PyStr(<<"p","l","a","n","n","e","d">>),
    parent_issue_number |-> expected_parent_num,
    requires            |-> Or(Get(c, "requires"), PyStr(<<>>)),
    provides            |-> Or(Get(c, "provides"), PyStr(<<>>)),
    points              |-> Or(Get(c, "points"), None),
    priority            |-> Or(Get(c, "priority"), None),
    created_at          |-> None,
    url                 |-> None ]

\* The record appended for an Incomplete candidate: the same keys plus 'notes'.
ExportRecordWithNotes(c, expected_parent_num, remote_num, parent_num, body_ok) ==
  [ k \in DOMAIN ExportRecord(c, expected_parent_num) \cup {"notes"} |->
      IF k = "notes"
      THEN [ remote_issue_number      |-> remote_num,
             remote_parent_number     |-> parent_num,
             body_has_required_fields |-> body_ok ]
      ELSE ExportRecord(c, expected_parent_num)[k] ]

\* Variant: a candidate without an expected parent passes the parent check.
parent_ok_LenientNull(expected_parent_num, parent_num) ==
  IsNone(expected_parent_num) \/ (expected_parent_num = parent_num)

parent_ok(expected_parent_num, parent_num) ==
  (IsNone(expected_parent_num) /\ IsNone(parent_num)) \/ (expected_parent_num = parent_num)

\* ------------------------------------------------------------ inputs
T_Add == <<"A","d","d">>

T_add == <<"a","d","d">>

K_CORE1 == <<"C","O","R","E","-","1">>

K_CORE9 == <<"C","O","R","E","-","9">>

\* issue_map.json: canonical id -> remote number.
IssueMap1 == [k \in {K_CORE1} |-> PyInt(42)]

\* parent_canonical values: absent, a mapped id, an unmapped id, a number.
ParentCanonicals == {None, PyStr(K_CORE1), PyStr(K_CORE9), PyInt(7)}

\* "requires Provides pRiOrItY"
B_full_mixed ==
  <<"r","e","q","u","i","r","e","s"," ","P","r","o","v","i","d","e","s"," ",
    "p","R","i","O","r","I","t","Y">>

\* "REQUIRES PROVIDES POINTS"
B_no_priority ==
  <<"R","E","Q","U","I","R","E","S"," ","P","R","O","V","I","D","E","S"," ",
    "P","O","I","N","T","S">>

\* "requires priority"
B_no_provides ==
  <<"r","e","q","u","i","r","e","s"," ","p","r","i","o","r","i","t","y">>

\* Remote bodies: null, complete (mixed case, no POINTS marker), and
\* incomplete (with and without a POINTS marker).
RemoteBodies ==
  {None, PyStr(B_full_mixed), PyStr(B_no_priority), PyStr(B_no_provides)}

\* The canonical payload fields of a candidate as the normaliser writes them.
StdPayload ==
  [ canonical_id |-> PyStr(<<"K","1">>),
    body         |-> PyStr(<<"b">>),
    labels       |-> PyList(<< PyStr(<<"x">>), PyStr(<<"y">>) >>),
    points       |-> PyInt(3),
    priority     |-> PyStr(<<"P","1">>),
    requires     |-> PyStr(<<"r">>),
    provides     |-> PyStr(<<"p">>) ]

\* Payloads with falsy and null field values.
Payloads ==
  { StdPayload,
    [StdPayload EXCEPT !.points = PyInt(0)],
    [StdPayload EXCEPT !.priority = PyStr(<<>>)],
    [ canonical_id |-> None, body |-> PyStr(<<>>), labels |-> PyList(<<>>),
      points |-> None, priority |-> None, requires |-> PyStr(<<>>),
      provides |-> PyStr(<<>>) ] }

Candidate(title, parent_canonical, pl) ==
  [ canonical_id     |-> pl.canonical_id,
    title            |-> PyStr(title),
    body             |-> pl.body,
    labels           |-> pl.labels,
    parent_canonical |-> parent_canonical,
    points           |-> pl.points,
    priority         |-> pl.priority,
    requires         |-> pl.requires,
    provides         |-> pl.provides ]

\* Candidates titled "Add" with each kind of parent reference, and one
\* candidate whose title differs from it in letter case only.
CandPool ==
  { Candidate(T_Add, pc0, StdPayload) : pc0 \in ParentCanonicals }
  \cup { Candidate(T_add, None, StdPayload) }

SeqsUpTo(S, n) == UNION { [1..k -> S] : k \in 0..n }

\* Remote ticket at position i of the store (numbers are distinct).
RemoteTicket(i, title, body) ==
  [ number |-> PyInt(100 + i), title |-> PyStr(title), body |-> body ]

\* Title and body of the remote tickets: "Add" with every body, and one
\* ticket whose title differs in letter case only.
RemoteKinds == ({T_Add} \X RemoteBodies) \cup { <<T_add, PyStr(B_full_mixed)>> }

RemoteStores ==
  { [i \in 1..Len(tb) |-> RemoteTicket(i, tb[i][1], tb[i][2])]
    : tb \in SeqsUpTo(RemoteKinds, MaxRemote) }

\* ------------------------------------------------------------ normalize_ticket
\* The keys normalize_ticket reads, as character sequences.
FieldKey ==
  [ canonical_id |-> <<"c","a","n","o","n","i","c","a","l","_","i","d">>,
    id |-> <<"i","d">>,
    key |-> <<"k","e","y">>,
    ticket_id |-> <<"t","i","c","k","e","t","_","i","d">>,
    title |-> <<"t","i","t","l","e">>,
    name |-> <<"n","a","m","e">>,
    summary |-> <<"s","u","m","m","a","r","y">>,
    body |-> <<"b","o","d","y">>,
    description |-> <<"d","e","s","c","r","i","p","t","i","o","n">>,
    desc |-> <<"d","e","s","c">>,
    labels |-> <<"l","a","b","e","l","s">>,
    tags |-> <<"t","a","g","s">>,
    parent |-> <<"p","a","r","e","n","t">>,
    parent_id |-> <<"p","a","r","e","n","t","_","i","d">>,
    parent_key |-> <<"p","a","r","e","n","t","_","k","e","y">>,
    points |-> <<"p","o","i","n","t","s">>,
    estimate |-> <<"e","s","t","i","m","a","t","e">>,
    priority |-> <<"p","r","i","o","r","i","t","y">>,
    requires |-> <<"r","e","q","u","i","r","e","s">>,
    REQUIRES |-> <<"R","E","Q","U","I","R","E","S">>,
    provides |-> <<"p","r","o","v","i","d","e","s">>,
    PROVIDES |-> <<"P","R","O","V","I","D","E","S">> ]

MinOf(S) == CHOOSE x \in S : \A y \in S : x <= y

MaxOf(S) == CHOOSE x \in S : \A y \in S : y <= x

IsDict(v) == v[1] = "dictlit"

\* d.get(k): the value of key k (of its last item when a literal repeats
\* the key), None when d has no such key.
DictGet(d, k) ==
  LET idx == { i \in 1..Len(d[2]) : d[2][i][1] = k }
  IN  IF idx = {} THEN None ELSE d[2][MaxOf(idx)][2]

\* d[k] = v
DictSet(d, k, v) ==
  IF \E i \in 1..Len(d[2]) : d[2][i][1] = k
  THEN PyDict([i \in 1..Len(d[2]) |-> IF d[2][i][1] = k THEN <<k, v>> ELSE d[2][i]])
  ELSE PyDict(Append(d[2], <<k, v>>))

\* Variant: the first key that is present decides, whatever its value.
RECURSIVE FirstTruthy_FirstPresent(_, _, _)
FirstTruthy_FirstPresent(d, ks, dflt) ==
  IF ks = <<>> THEN dflt
  ELSE IF \E i \in 1..Len(d[2]) : d[2][i][1] = ks[1] THEN DictGet(d, ks[1])
  ELSE FirstTruthy_FirstPresent(d, Tail(ks), dflt)

\* d.get(ks[1]) or d.get(ks[2]) or ... or dflt
RECURSIVE FirstTruthy(_, _, _)
FirstTruthy(d, ks, dflt) ==
  IF ks = <<>> THEN dflt
  ELSE IF Truthy(DictGet(d, ks[1])) THEN DictGet(d, ks[1])
  ELSE FirstTruthy(d, Tail(ks), dflt)

\* Characters str.strip() removes.
Whitespace == {" ", "\t", "\n", "\r"}

RECURSIVE LStrip(_)
LStrip(s) == IF s # <<>> /\ s[1] \in Whitespace THEN LStrip(Tail(s)) ELSE s

RECURSIVE RStrip(_)
RStrip(s) ==
  IF s # <<>> /\ s[Len(s)] \in Whitespace THEN RStrip(SubSeq(s, 1, Len(s) - 1)) ELSE s

\* str.strip()
Strip(s) == RStrip(LStrip(s))

\* str.split(sep) for a one-character separator.
RECURSIVE Split(_, _)
Split(s, sep) ==
  LET idx == { i \in 1..Len(s) : s[i] = sep }
  IN  IF idx = {} THEN << s >>
      ELSE << SubSeq(s, 1, MinOf(idx) - 1) >> \o Split(SubSeq(s, MinOf(idx) + 1, Len(s)), sep)

\* Variant: the pieces are kept as split, untrimmed.
NormalizeLabels_NoStrip(v) ==
  IF v[1] = "str"
  THEN LET kept == SelectSeq(Split(v[2], ","), LAMBDA piece : Strip(piece) # <<>>)
       IN  PyList([i \in 1..Len(kept) |-> PyStr(kept[i])])
  ELSE v

\* [s.strip() for s in labels.split(',') if s.strip()] when labels is a str.
NormalizeLabels(v) ==
  IF v[1] = "str"
  THEN LET kept == SelectSeq(Split(v[2], ","), LAMBDA piece : Strip(piece) # <<>>)
       IN  PyList([i \in 1..Len(kept) |-> PyStr(Strip(kept[i]))])
  ELSE v

DigitVal ==
  [ch \in {"0","1","2","3","4","5","6","7","8","9"} |->
     CASE ch = "0" -> 0 [] ch = "1" -> 1 [] ch = "2" -> 2 [] ch = "3" -> 3 [] ch = "4" -> 4 [] ch = "5" -> 5 [] ch = "6" -> 6 [] ch = "7" -> 7 [] ch = "8" -> 8 [] ch = "9" -> 9]

IsDigits(s) == s # <<>> /\ \A i \in 1..Len(s) : s[i] \in DOMAIN DigitVal

RECURSIVE DigitsValue(_)
DigitsValue(s) ==
  IF s = <<>> THEN 0 ELSE DigitsValue(SubSeq(s, 1, Len(s) - 1)) * 10 + DigitVal[s[Len(s)]]

RECURSIVE DropTrailingZeros(_)
DropTrailingZeros(s) ==
  IF s # <<>> /\ s[Len(s)] = "0" THEN DropTrailingZeros(SubSeq(s, 1, Len(s) - 1)) ELSE s

\* int(v): <<"raise">> when int() raises.
IntOf(v) ==
  CASE v[1] = "int" -> v
    [] v[1] = "float" -> PyInt(v[2])
    [] v[1] = "str" ->
         LET t == Strip(v[2])
             neg == t # <<>> /\ t[1] = "-"
             body == IF t # <<>> /\ t[1] \in {"-", "+"} THEN Tail(t) ELSE t
         IN  IF IsDigits(body)
             THEN PyInt(IF neg THEN 0 - DigitsValue(body) ELSE DigitsValue(body))
             ELSE <<"raise">>
    [] OTHER -> <<"raise">>

\* float(v) for an unsigned decimal text `digits.digits`: <<"raise">> otherwise.
FloatOf(v) ==
  CASE v[1] = "str" ->
         LET t == Strip(v[2])
             dots == { i \in 1..Len(t) : t[i] = "." }
         IN  IF Cardinality(dots) = 1
             THEN LET dot == MinOf(dots)
                      whole == SubSeq(t, 1, dot - 1)
                      frac == SubSeq(t, dot + 1, Len(t))
                  IN  IF IsDigits(whole) /\ IsDigits(frac)
                      THEN PyFloat(DigitsValue(whole), DropTrailingZeros(frac))
                      ELSE <<"raise">>
             ELSE <<"raise">>
    [] OTHER -> <<"raise">>

\* Variant: a failing int() is not caught.
CoercePoints_NoCatch(v) == IF IsNone(v) THEN None ELSE IntOf(v)

\* The points coercion: int(), else float(), else None.
CoercePoints(v) ==
  IF IsNone(v) THEN None
  ELSE IF IntOf(v)[1] # "raise" THEN IntOf(v)
  ELSE IF FloatOf(v)[1] # "raise" THEN FloatOf(v)
  ELSE None

normalize_ticket(d) ==
  [ canonical_id     |-> FirstTruthy(d, <<FieldKey.canonical_id, FieldKey.id, FieldKey.key,
                                          FieldKey.ticket_id>>, None),
    title            |-> FirstTruthy(d, <<FieldKey.title, FieldKey.name, FieldKey.summary>>,
                                     PyStr(<<>>)),
    body             |-> FirstTruthy(d, <<FieldKey.body, FieldKey.description, FieldKey.desc>>,
                                     PyStr(<<>>)),
    labels           |-> NormalizeLabels(FirstTruthy(d, <<FieldKey.labels, FieldKey.tags>>,
                                                     PyList(<<>>))),
    parent_canonical |-> FirstTruthy(d, <<FieldKey.parent, FieldKey.parent_id,
                                          FieldKey.parent_key>>, None),
    points           |-> CoercePoints(FirstTruthy(d, <<FieldKey.points, FieldKey.estimate>>, None)),
    priority         |-> FirstTruthy(d, <<FieldKey.priority>>, None),
    requires         |-> FirstTruthy(d, <<FieldKey.requires, FieldKey.REQUIRES>>, PyStr(<<>>)),
    provides         |-> FirstTruthy(d, <<FieldKey.provides, FieldKey.PROVIDES>>, PyStr(<<>>)) ]

\* ------------------------------------------------------------ source files
\* Each glob pattern as the literal pieces its `*` separate.
PATTERNS ==
  << << <<"c","r","e","a","t","e","_">>, <<".","p","y">> >>,
     << <<"c","r","e","a","t","e","_","a","l","l","_">>, <<".","p","y">> >>,
     << <<"c","r","e","a","t","e","_","r","e","m","a","i","n","i","n","g">>, <<".","p","y">> >>,
     << <<"c","r","e","a","t","e","_","g","o">>, <<".","p","y">> >>,
     << <<>>, <<"c","r","e","a","t","e">>, <<".","p","y">> >> >>

StartsWith(s, p) == Len(s) >= Len(p) /\ SubSeq(s, 1, Len(p)) = p

EndsWith(s, p) == Len(s) >= Len(p) /\ SubSeq(s, Len(s) - Len(p) + 1, Len(s)) = p

\* The pieces that follow a `*` match the rest s of a file name.
RECURSIVE MatchRest(_, _)
MatchRest(pieces, s) ==
  IF Len(pieces) = 1 THEN EndsWith(s, pieces[1])
  ELSE \E i \in 0..(Len(s) - Len(pieces[1])) :
         /\ SubSeq(s, i + 1, i + Len(pieces[1])) = pieces[1]
         /\ MatchRest(Tail(pieces), SubSeq(s, i + Len(pieces[1]) + 1, Len(s)))

\* glob: the file name matches the pattern.
GlobMatch(pieces, name) ==
  IF Len(pieces) = 1 THEN name = pieces[1]
  ELSE /\ StartsWith(name, pieces[1])
       /\ MatchRest(Tail(pieces), SubSeq(name, Len(pieces[1]) + 1, Len(name)))

\* The order in which main visits the files of directory fs (positions in
\* fs): pattern after pattern, each pattern's matches in directory order.
RECURSIVE VisitsFrom(_, _)
VisitsFrom(fs, p) ==
  IF p > Len(PATTERNS) THEN <<>>
  ELSE SelectSeq([i \in 1..Len(fs) |-> i], LAMBDA i : GlobMatch(PATTERNS[p], fs[i].name))
         \o VisitsFrom(fs, p + 1)

Visits(fs) == VisitsFrom(fs, 1)

\* A file's content is <<"syntaxerror">> or <<"ok", nodes>>; a node of the
\* module body is [stmt, ast, obj]: the statement type, the type of its
\* value node, and the object ast.literal_eval gives (<<"raise">> when it
\* raises).
extract_literals_from_file(content) ==
  IF content[1] # "ok" THEN <<"raise">>
  ELSE LET taken == SelectSeq(content[2],
                      LAMBDA node : /\ node.stmt \in {"Assign", "Expr"}
                                    /\ node.ast \in {"List", "Tuple", "Dict"}
                                    /\ node.obj[1] # "raise")
       IN  <<"ok", [i \in 1..Len(taken) |-> taken[i].obj]>>

\* Variant: a title already seen is added again.
AddRecord_NoDedupe(st, d) ==
  LET cand == normalize_ticket(d)
      logged == [st EXCEPT !.log = Append(st.log, <<d, cand>>)]
  IN  IF ~Truthy(cand.title) THEN logged
      ELSE [logged EXCEPT !.cl = Append(st.cl, cand), !.seen = st.seen \cup {cand.title}]

\* One record of a literal: normalize, skip without title, skip a seen
\* title, else remember the title and append.  st = [cl, seen, log].
AddRecord(st, d) ==
  LET cand == normalize_ticket(d)
      logged == [st EXCEPT !.log = Append(st.log, <<d, cand>>)]
  IN  IF ~Truthy(cand.title) THEN logged
      ELSE IF cand.title \in st.seen THEN logged
      ELSE [logged EXCEPT !.cl = Append(st.cl, cand), !.seen = st.seen \cup {cand.title}]

RECURSIVE AddRecords(_, _)
AddRecords(st, ds) ==
  IF ds = <<>> THEN st ELSE AddRecords(AddRecord(st, ds[1]), Tail(ds))

\* Variant: the records of a list are taken although another element of
\* the list is not a record.
ProcessLiteral_MixedList(st, lit) ==
  IF lit[1] = "list"
  THEN AddRecords(st, SelectSeq(lit[2], IsDict))
  ELSE IF IsDict(lit)
  THEN IF \A i \in 1..Len(lit[2]) : IsDict(lit[2][i][2])
       THEN AddRecords(st,
              [i \in 1..Len(lit[2]) |->
                 DictSet(lit[2][i][2], FieldKey.canonical_id,
                         Or(DictGet(lit[2][i][2], FieldKey.canonical_id), PyStr(lit[2][i][1])))])
       ELSE AddRecord(st, lit)
  ELSE st

\* The branches of main for one literal: a list of dicts, a dict whose
\* values are all dicts (the key becomes the canonical_id default), a
\* single dict, anything else.
ProcessLiteral(st, lit) ==
  IF lit[1] = "list" /\ \A i \in 1..Len(lit[2]) : IsDict(lit[2][i])
  THEN AddRecords(st, lit[2])
  ELSE IF IsDict(lit)
  THEN IF \A i \in 1..Len(lit[2]) : IsDict(lit[2][i][2])
       THEN AddRecords(st,
              [i \in 1..Len(lit[2]) |->
                 DictSet(lit[2][i][2], FieldKey.canonical_id,
                         Or(DictGet(lit[2][i][2], FieldKey.canonical_id), PyStr(lit[2][i][1])))])
       ELSE AddRecord(st, lit)
  ELSE st

RECURSIVE ProcessLiterals(_, _)
ProcessLiterals(st, lits) ==
  IF lits = <<>> THEN st ELSE ProcessLiterals(ProcessLiteral(st, lits[1]), Tail(lits))

\* The creation script has not been started.
CreateIdle ==
  /\ remaining_tickets = <<>>
  /\ parent_children = <<>>
  /\ grp = 0
  /\ child = 0
  /\ child_nums = <<>>
  /\ total_created = 0
  /\ pcCreate = "idle"
  /\ reported = <<"none">>
  /\ created_ok = 0

\* The parser has not been started (the state the reconciliation runs in).
ParseIdle ==
  /\ files = <<>>
  /\ visit = 0
  /\ seen_titles = {}
  /\ candidate_list = <<>>
  /\ errors = <<>>
  /\ pcParse = "idle"
  /\ runs = 0
  /\ outCandidates = <<"absent">>
  /\ normLog = <<>>

\* ------------------------------------------------------------ main()
Absent == <<"absent">>

Init ==
  /\ candFile \in {Absent} \cup { <<"file", cs>> : cs \in SeqsUpTo(CandPool, MaxCands) }
  /\ issues_map = IssueMap1
  /\ remote \in RemoteStores
  /\ remoteAtStart = remote
  /\ ParseIdle
  /\ CreateIdle
  /\ pc = "start"
  /\ candidates = <<>>
  /\ scanned = 0
  /\ fully_correct = 0
  /\ exported = <<>>
  /\ ambiguous = <<>>
  /\ results = <<>>
  /\ calls = <<>>
  /\ outFile = Absent
  /\ exitStatus = None

\* Inputs that vary the canonical payload fields of the candidates.
InitFields ==
  /\ candFile \in {Absent} \cup
        { <<"file", cs>> : cs \in SeqsUpTo({ Candidate(T_Add, None, pl) : pl \in Payloads }, MaxCands) }
  /\ issues_map = IssueMap1
  /\ remote \in RemoteStores
  /\ remoteAtStart = remote
  /\ ParseIdle
  /\ CreateIdle
  /\ pc = "start"
  /\ candidates = <<>>
  /\ scanned = 0
  /\ fully_correct = 0
  /\ exported = <<>>
  /\ ambiguous = <<>>
  /\ results = <<>>
  /\ calls = <<>>
  /\ outFile = Absent
  /\ exitStatus = None

\* parent_canonical values that also include the number 0 and a numeric string.
ParentCanonicalsWide == ParentCanonicals \cup {PyInt(0), PyStr(<<"4","2">>)}

\* Inputs that vary the parent reference of the candidates.
InitParents ==
  /\ candFile \in {Absent} \cup
        { <<"file", cs>> :
            cs \in SeqsUpTo({ Candidate(T_Add, pc0, StdPayload) : pc0 \in ParentCanonicalsWide },
                            MaxCands) }
  /\ issues_map = IssueMap1
  /\ remote \in RemoteStores
  /\ remoteAtStart = remote
  /\ ParseIdle
  /\ CreateIdle
  /\ pc = "start"
  /\ candidates = <<>>
  /\ scanned = 0
  /\ fully_correct = 0
  /\ exported = <<>>
  /\ ambiguous = <<>>
  /\ results = <<>>
  /\ calls = <<>>
  /\ outFile = Absent
  /\ exitStatus = None

T_Ad == <<"A","d">>

\* Remote titles near "Add": other letter case, surrounding whitespace,
\* substring and superstring.
NearTitles ==
  { T_Add, T_add, <<"A","d","d"," ">>, <<" ","A","d","d">>, T_Ad, <<"A","d","d","s">> }

\* Inputs that vary the remote titles.
InitTitles ==
  /\ candFile \in {Absent} \cup
        { <<"file", cs>> :
            cs \in SeqsUpTo({ Candidate(t, None, StdPayload) : t \in {T_Add, T_Ad} }, MaxCands) }
  /\ issues_map = IssueMap1
  /\ remote \in { [i \in 1..Len(ts) |-> RemoteTicket(i, ts[i], PyStr(B_full_mixed))]
                  : ts \in SeqsUpTo(NearTitles, MaxRemote) }
  /\ remoteAtStart = remote
  /\ ParseIdle
  /\ CreateIdle
  /\ pc = "start"
  /\ candidates = <<>>
  /\ scanned = 0
  /\ fully_correct = 0
  /\ exported = <<>>
  /\ ambiguous = <<>>
  /\ results = <<>>
  /\ calls = <<>>
  /\ outFile = Absent
  /\ exitStatus = None

T_other == <<"o","t","h","e","r">>

\* A large remote store: n tickets, the one at position pos titled "Add"
\* with the given body (and, when twin holds, the one at position 2 as
\* well), all the others with another title.
BigStore(n, pos, twin, body) ==
  [i \in 1..n |-> IF i = pos \/ (twin /\ i = 2) THEN RemoteTicket(i, T_Add, body)
                            ELSE RemoteTicket(i, T_other, None)]

\* Inputs with as many remote tickets as the list limit, or one more.
InitLimit ==
  /\ candFile \in {Absent} \cup { <<"file", cs>> : cs \in SeqsUpTo(CandPool, MaxCands) }
  /\ issues_map = IssueMap1
  /\ remote \in { BigStore(n, pos, twin, body) :
                    n \in {GhLimit, GhLimit + 1},
                    pos \in {1, GhLimit, GhLimit + 1},
                    twin \in BOOLEAN,
                    body \in {PyStr(B_full_mixed), PyStr(B_no_priority)} }
  /\ remoteAtStart = remote
  /\ ParseIdle
  /\ CreateIdle
  /\ pc = "start"
  /\ candidates = <<>>
  /\ scanned = 0
  /\ fully_correct = 0
  /\ exported = <<>>
  /\ ambiguous = <<>>
  /\ results = <<>>
  /\ calls = <<>>
  /\ outFile = Absent
  /\ exitStatus = None

\* Inputs of a run during which the remote store may change.
InitChange ==
  /\ candFile \in {Absent} \cup
        { <<"file", cs>> :
            cs \in SeqsUpTo({ Candidate(t, None, StdPayload) : t \in {T_Add, T_add} }, MaxCands) }
  /\ issues_map = IssueMap1
  /\ remote \in RemoteStores
  /\ remoteAtStart = remote
  /\ ParseIdle
  /\ CreateIdle
  /\ pc = "start"
  /\ candidates = <<>>
  /\ scanned = 0
  /\ fully_correct = 0
  /\ exported = <<>>
  /\ ambiguous = <<>>
  /\ results = <<>>
  /\ calls = <<>>
  /\ outFile = Absent
  /\ exitStatus = None

\* Another user changes the remote store while the run is in progress: a
\* ticket is created (listed first), retitled or deleted.  One change per run.
RemoteChange ==
  /\ pc \in {"start", "loop"}
  /\ remote = remoteAtStart
  /\ \/ \E tb \in RemoteKinds :
          remote' = << RemoteTicket(Len(remote) + 1, tb[1], tb[2]) >> \o remote
     \/ \E k \in 1..Len(remote), t \in {T_Add, T_add} :
          /\ remote[k].title # PyStr(t)
          /\ remote' = [remote EXCEPT ![k].title = PyStr(t)]
     \/ \E k \in 1..Len(remote) :
          remote' = SubSeq(remote, 1, k - 1) \o SubSeq(remote, k + 1, Len(remote))
  /\ UNCHANGED <<createVars, parseVars, candFile, issues_map, remoteAtStart, pc, candidates, scanned,
                 fully_correct, exported, ambiguous, results, calls, outFile, exitStatus>>

\* canonical_candidates.json does not exist: sys.exit(1).
NoCandidatesFile ==
  /\ pc = "start"
  /\ candFile = Absent
  /\ pc' = "exited"
  /\ exitStatus' = PyInt(1)
  /\ UNCHANGED <<createVars, parseVars, candFile, issues_map, remote, remoteAtStart, candidates, scanned, fully_correct,
                 exported, ambiguous, results, calls, outFile>>

LoadInputs ==
  /\ pc = "start"
  /\ candFile # Absent
  /\ candidates' = candFile[2]
  /\ pc' = "loop"
  /\ UNCHANGED <<createVars, parseVars, candFile, issues_map, remote, remoteAtStart, scanned, fully_correct, exported,
                 ambiguous, results, calls, outFile, exitStatus>>

\* The candidate of the loop iteration about to run.
Cur == candidates[scanned + 1]

InLoop == pc = "loop" /\ scanned < Len(candidates)

ListCall(res) == [op |-> "list", cand |-> scanned + 1, result |-> res]

ParentCall(num, p, res) ==
  [op |-> "parent", cand |-> scanned + 1, number |-> num, failed |-> LookupFailed(p),
   result |-> res]

\* Variant: the records gathered so far are written before exiting.
IterQueryFail_WritesPartial ==
  /\ InLoop
  /\ \E p \in GhIssueListRuns(remote) :
       /\ gh_issue_list_by_title(Get(Cur, "title"), p)[1] = "raise"
       /\ scanned' = scanned + 1
       /\ calls' = Append(calls, ListCall("raise"))
       /\ outFile' = <<"file", exported>>
       /\ pc' = "exited"
       /\ exitStatus' = PyInt(1)
  /\ UNCHANGED <<createVars, parseVars, candFile, issues_map, remote, remoteAtStart, candidates, fully_correct, exported,
                 ambiguous, results>>

\* Variant: a failed query is retried once before giving up.
IterQueryFail_Retries ==
  /\ InLoop
  /\ \E p \in GhIssueListRuns(remote) :
       /\ gh_issue_list_by_title(Get(Cur, "title"), p)[1] = "raise"
       /\ scanned' = scanned + 1
       /\ calls' = calls \o <<ListCall("raise"), ListCall("raise")>>
       /\ pc' = "exited"
       /\ exitStatus' = PyInt(1)
  /\ UNCHANGED <<createVars, parseVars, candFile, issues_map, remote, remoteAtStart, candidates, fully_correct, exported,
                 ambiguous, results, outFile>>

\* One iteration in which the snapshot query raises: sys.exit(1).
IterQueryFail ==
  /\ InLoop
  /\ \E p \in GhIssueListRuns(remote) :
       /\ gh_issue_list_by_title(Get(Cur, "title"), p)[1] = "raise"
       /\ scanned' = scanned + 1
       /\ calls' = Append(calls, ListCall("raise"))
       /\ pc' = "exited"
       /\ exitStatus' = PyInt(1)
  /\ UNCHANGED <<createVars, parseVars, candFile, issues_map, remote, remoteAtStart, candidates, fully_correct, exported,
                 ambiguous, results, outFile>>

\* Variant: a candidate without a match is also counted as fully correct.
IterMissing_CountsCorrect ==
  /\ InLoop
  /\ \E p \in GhIssueListRuns(remote) :
       LET c == Cur
           expected_parent_num == map_parent_canonical_to_number(Get(c, "parent_canonical"), issues_map)
           r == gh_issue_list_by_title(Get(c, "title"), p)
       IN  /\ r[1] = "ok"
           /\ r[2] = <<>>
           /\ scanned' = scanned + 1
           /\ calls' = Append(calls, ListCall("ok"))
           /\ exported' = Append(exported, ExportRecord(c, expected_parent_num))
           /\ fully_correct' = fully_correct + 1
           /\ results' = Append(results, "Missing")
  /\ UNCHANGED <<createVars, parseVars, candFile, issues_map, remote, remoteAtStart, pc, candidates,
                 ambiguous, outFile, exitStatus>>

\* One iteration with no title match.
IterMissing ==
  /\ InLoop
  /\ \E p \in GhIssueListRuns(remote) :
       LET c == Cur
           expected_parent_num == map_parent_canonical_to_number(Get(c, "parent_canonical"), issues_map)
           r == gh_issue_list_by_title(Get(c, "title"), p)
       IN  /\ r[1] = "ok"
           /\ r[2] = <<>>
           /\ scanned' = scanned + 1
           /\ calls' = Append(calls, ListCall("ok"))
           /\ exported' = Append(exported, ExportRecord(c, expected_parent_num))
           /\ results' = Append(results, "Missing")
  /\ UNCHANGED <<createVars, parseVars, candFile, issues_map, remote, remoteAtStart, pc, candidates, fully_correct,
                 ambiguous, outFile, exitStatus>>

\* Variant: only the first matching number is recorded.
IterAmbiguous_FirstOnly ==
  /\ InLoop
  /\ \E p \in GhIssueListRuns(remote) :
       LET c == Cur
           expected_parent_num == map_parent_canonical_to_number(Get(c, "parent_canonical"), issues_map)
           r == gh_issue_list_by_title(Get(c, "title"), p)
       IN  /\ r[1] = "ok"
           /\ Len(r[2]) > 1
           /\ scanned' = scanned + 1
           /\ calls' = Append(calls, ListCall("ok"))
           /\ ambiguous' = Append(ambiguous,
                  [title |-> Get(c, "title"), matches |-> << r[2][1].number >>])
           /\ exported' = Append(exported, ExportRecord(c, expected_parent_num))
           /\ results' = Append(results, "Ambiguous")
  /\ UNCHANGED <<createVars, parseVars, candFile, issues_map, remote, remoteAtStart, pc, candidates, fully_correct,
                 outFile, exitStatus>>

\* Variant: with several matches the first one is validated like a single match.
IterAmbiguous_FirstMatchWins ==
  /\ InLoop
  /\ \E p \in GhIssueListRuns(remote), q \in GhSubIssueRuns :
       LET c == Cur
           expected_parent_num == map_parent_canonical_to_number(Get(c, "parent_canonical"), issues_map)
           r == gh_issue_list_by_title(Get(c, "title"), p)
           remote_num == r[2][1].number
           remote_body == Or(r[2][1].body, PyStr(<<>>))
           parent_num == ParentLookup(q)
           body_ok == body_has_required_fields(remote_body)
           ok == parent_ok(expected_parent_num, parent_num) /\ body_ok
       IN  /\ r[1] = "ok"
           /\ Len(r[2]) > 1
           /\ scanned' = scanned + 1
           /\ calls' = calls \o <<ListCall("ok"), ParentCall(remote_num, q, parent_num)>>
           /\ fully_correct' = IF ok THEN fully_correct + 1 ELSE fully_correct
           /\ exported' = IF ok THEN exported
                          ELSE Append(exported,
                                 ExportRecordWithNotes(c, expected_parent_num, remote_num, parent_num, body_ok))
           /\ results' = Append(results, IF ok THEN "Correct" ELSE "Incomplete")
  /\ UNCHANGED <<createVars, parseVars, candFile, issues_map, remote, remoteAtStart, pc, candidates, ambiguous,
                 outFile, exitStatus>>

\* Variant: an ambiguous candidate is listed but not exported.
IterAmbiguous_NotExported ==
  /\ InLoop
  /\ \E p \in GhIssueListRuns(remote) :
       LET c == Cur
           r == gh_issue_list_by_title(Get(c, "title"), p)
       IN  /\ r[1] = "ok"
           /\ Len(r[2]) > 1
           /\ scanned' = scanned + 1
           /\ calls' = Append(calls, ListCall("ok"))
           /\ ambiguous' = Append(ambiguous,
                  [title |-> Get(c, "title"),
                   matches |-> [i \in 1..Len(r[2]) |-> r[2][i].number]])
           /\ results' = Append(results, "Ambiguous")
  /\ UNCHANGED <<createVars, parseVars, candFile, issues_map, remote, remoteAtStart, pc, candidates, fully_correct,
                 exported, outFile, exitStatus>>

\* Variant: the parent of the first match is looked up for an ambiguous
\* candidate too.
IterAmbiguous_LooksUpParent ==
  /\ InLoop
  /\ \E p \in GhIssueListRuns(remote), q \in GhSubIssueRuns :
       LET c == Cur
           expected_parent_num == map_parent_canonical_to_number(Get(c, "parent_canonical"), issues_map)
           r == gh_issue_list_by_title(Get(c, "title"), p)
       IN  /\ r[1] = "ok"
           /\ Len(r[2]) > 1
           /\ scanned' = scanned + 1
           /\ calls' = calls \o <<ListCall("ok"), ParentCall(r[2][1].number, q, ParentLookup(q))>>
           /\ ambiguous' = Append(ambiguous,
                  [title |-> Get(c, "title"),
                   matches |-> [i \in 1..Len(r[2]) |-> r[2][i].number]])
           /\ exported' = Append(exported, ExportRecord(c, expected_parent_num))
           /\ results' = Append(results, "Ambiguous")
  /\ UNCHANGED <<createVars, parseVars, candFile, issues_map, remote, remoteAtStart, pc, candidates, fully_correct,
                 outFile, exitStatus>>

\* One iteration with two or more title matches.
IterAmbiguous ==
  /\ InLoop
  /\ \E p \in GhIssueListRuns(remote) :
       LET c == Cur
           expected_parent_num == map_parent_canonical_to_number(Get(c, "parent_canonical"), issues_map)
           r == gh_issue_list_by_title(Get(c, "title"), p)
       IN  /\ r[1] = "ok"
           /\ Len(r[2]) > 1
           /\ scanned' = scanned + 1
           /\ calls' = Append(calls, ListCall("ok"))
           /\ ambiguous' = Append(ambiguous,
                  [title |-> Get(c, "title"),
                   matches |-> [i \in 1..Len(r[2]) |-> r[2][i].number]])
           /\ exported' = Append(exported, ExportRecord(c, expected_parent_num))
           /\ results' = Append(results, "Ambiguous")
  /\ UNCHANGED <<createVars, parseVars, candFile, issues_map, remote, remoteAtStart, pc, candidates, fully_correct,
                 outFile, exitStatus>>

\* One iteration with a single match that passes both checks.
IterCorrect ==
  /\ InLoop
  /\ \E p \in GhIssueListRuns(remote), q \in GhSubIssueRuns :
       LET c == Cur
           expected_parent_num == map_parent_canonical_to_number(Get(c, "parent_canonical"), issues_map)
           r == gh_issue_list_by_title(Get(c, "title"), p)
           remote_num == r[2][1].number
           remote_body == Or(r[2][1].body, PyStr(<<>>))
           parent_num == ParentLookup(q)
           body_ok == body_has_required_fields(remote_body)
       IN  /\ r[1] = "ok"
           /\ Len(r[2]) = 1
           /\ parent_ok(expected_parent_num, parent_num) /\ body_ok
           /\ scanned' = scanned + 1
           /\ calls' = calls \o <<ListCall("ok"), ParentCall(remote_num, q, parent_num)>>
           /\ fully_correct' = fully_correct + 1
           /\ results' = Append(results, "Correct")
  /\ UNCHANGED <<createVars, parseVars, candFile, issues_map, remote, remoteAtStart, pc, candidates, exported, ambiguous,
                 outFile, exitStatus>>

\* Variant: the Incomplete record is put in front of the export list.
IterIncomplete_Prepends ==
  /\ InLoop
  /\ \E p \in GhIssueListRuns(remote), q \in GhSubIssueRuns :
       LET c == Cur
           expected_parent_num == map_parent_canonical_to_number(Get(c, "parent_canonical"), issues_map)
           r == gh_issue_list_by_title(Get(c, "title"), p)
           remote_num == r[2][1].number
           remote_body == Or(r[2][1].body, PyStr(<<>>))
           parent_num == ParentLookup(q)
           body_ok == body_has_required_fields(remote_body)
       IN  /\ r[1] = "ok"
           /\ Len(r[2]) = 1
           /\ ~(parent_ok(expected_parent_num, parent_num) /\ body_ok)
           /\ scanned' = scanned + 1
           /\ calls' = calls \o <<ListCall("ok"), ParentCall(remote_num, q, parent_num)>>
           /\ exported' = << ExportRecordWithNotes(c, expected_parent_num, remote_num, parent_num, body_ok) >>
                           \o exported
           /\ results' = Append(results, "Incomplete")
  /\ UNCHANGED <<createVars, parseVars, candFile, issues_map, remote, remoteAtStart, pc, candidates, fully_correct,
                 ambiguous, outFile, exitStatus>>

\* One iteration with a single match that fails a check.
IterIncomplete ==
  /\ InLoop
  /\ \E p \in GhIssueListRuns(remote), q \in GhSubIssueRuns :
       LET c == Cur
           expected_parent_num == map_parent_canonical_to_number(Get(c, "parent_canonical"), issues_map)
           r == gh_issue_list_by_title(Get(c, "title"), p)
           remote_num == r[2][1].number
           remote_body == Or(r[2][1].body, PyStr(<<>>))
           parent_num == ParentLookup(q)
           body_ok == body_has_required_fields(remote_body)
       IN  /\ r[1] = "ok"
           /\ Len(r[2]) = 1
           /\ ~(parent_ok(expected_parent_num, parent_num) /\ body_ok)
           /\ scanned' = scanned + 1
           /\ calls' = calls \o <<ListCall("ok"), ParentCall(remote_num, q, parent_num)>>
           /\ exported' = Append(exported,
                  ExportRecordWithNotes(c, expected_parent_num, remote_num, parent_num, body_ok))
           /\ results' = Append(results, "Incomplete")
  /\ UNCHANGED <<createVars, parseVars, candFile, issues_map, remote, remoteAtStart, pc, candidates, fully_correct,
                 ambiguous, outFile, exitStatus>>

\* The loop is over: write exported_issues.json and return.
WriteExport ==
  /\ pc = "loop"
  /\ scanned = Len(candidates)
  /\ outFile' = <<"file", exported>>
  /\ pc' = "done"
  /\ exitStatus' = PyInt(0)
  /\ UNCHANGED <<createVars, parseVars, candFile, issues_map, remote, remoteAtStart, candidates, scanned, fully_correct,
                 exported, ambiguous, results, calls>>

Next ==
  \/ NoCandidatesFile
  \/ LoadInputs
  \/ IterQueryFail
  \/ IterMissing
  \/ IterAmbiguous
  \/ IterCorrect
  \/ IterIncomplete
  \/ WriteExport

Spec == Init /\ [][Next]_vars

SpecFields == InitFields /\ [][Next]_vars

SpecParents == InitParents /\ [][Next]_vars

SpecTitles == InitTitles /\ [][Next]_vars

SpecLimit == InitLimit /\ [][Next]_vars

NextChange == Next \/ RemoteChange

SpecChange == InitChange /\ [][NextChange]_vars

\* ------------------------------------------------------------ parse_local_ticket_files.main()
\* The reconciliation has not been started (the state the parser runs in).
CompareIdle ==
  /\ candFile = Absent
  /\ issues_map = IssueMap1
  /\ remote = <<>>
  /\ remoteAtStart = <<>>
  /\ pc = "start"
  /\ candidates = <<>>
  /\ scanned = 0
  /\ fully_correct = 0
  /\ exported = <<>>
  /\ ambiguous = <<>>
  /\ results = <<>>
  /\ calls = <<>>
  /\ outFile = Absent
  /\ exitStatus = None

\* File names: matched by patterns 1 and 5; by 1, 2 and 5; by 5; by none.
N_create_a == <<"c","r","e","a","t","e","_","a",".","p","y">>

N_create_all_b == <<"c","r","e","a","t","e","_","a","l","l","_","b",".","p","y">>

N_recreate == <<"r","e","c","r","e","a","t","e",".","p","y">>

N_notes == <<"n","o","t","e","s",".","p","y">>

FileNames == {N_create_a, N_create_all_b, N_recreate, N_notes}

T_Fix == <<"F","i","x">>

\* Raw records: two with the title "Add" and different bodies, one titled
\* through the alias name, one with an empty title, one without title.
R_Add1 == PyDict(<< <<FieldKey.title, PyStr(T_Add)>>, <<FieldKey.body, PyStr(<<"1">>)>> >>)

R_Add2 == PyDict(<< <<FieldKey.title, PyStr(T_Add)>>, <<FieldKey.body, PyStr(<<"2">>)>> >>)

R_Fix == PyDict(<< <<FieldKey.name, PyStr(T_Fix)>> >>)

R_Empty == PyDict(<< <<FieldKey.title, PyStr(<<>>)>>, <<FieldKey.body, PyStr(<<"3">>)>> >>)

R_NoTitle == PyDict(<< <<FieldKey.body, PyStr(<<"4">>)>> >>)

Node(stmt, ast, obj) == [stmt |-> stmt, ast |-> ast, obj |-> obj]

\* File contents: unparsable; a list of records; a list and a bare dict
\* expression; a mapping of keys to records; a single dict, a tuple and
\* another statement; a list and a list that is not a literal.
SourceContents ==
  { <<"syntaxerror">>,
    <<"ok", << Node("Assign", "List", PyList(<<R_Add1, R_Fix>>)) >> >>,
    <<"ok", << Node("Assign", "List", PyList(<<R_Add2, R_Empty>>)),
               Node("Expr", "Dict", R_NoTitle) >> >>,
    <<"ok", << Node("Assign", "Dict",
                    PyDict(<< << <<"K","1">>, R_Add2 >>, << <<"K","2">>, R_NoTitle >> >>)) >> >>,
    <<"ok", << Node("Expr", "Dict", R_Add2),
               Node("Assign", "Tuple", PyTuple(<<R_Fix>>)),
               Node("Import", "None", <<"raise">>) >> >>,
    <<"ok", << Node("Assign", "List", PyList(<<R_Add1, R_Add2>>)),
               Node("Assign", "List", <<"raise">>) >> >> }

\* The directories of at most MaxFiles files with distinct names.
Workspaces(Names, Contents) ==
  UNION { { [i \in 1..k |-> [name |-> ns[i], content |-> cts[i]]] :
              ns \in { f \in [1..k -> Names] : \A i, j \in 1..k : f[i] = f[j] => i = j },
              cts \in [1..k -> Contents] } : k \in 0..MaxFiles }

\* The process starts: the module-level lists are empty.
ParseStart(ws) ==
  /\ CompareIdle
  /\ CreateIdle
  /\ files \in ws
  /\ visit = 0
  /\ seen_titles = {}
  /\ candidate_list = <<>>
  /\ errors = <<>>
  /\ pcParse = "idle"
  /\ runs = 0
  /\ outCandidates = Absent
  /\ normLog = <<>>

InitParse == ParseStart(Workspaces(FileNames, SourceContents))

\* Records of a mapping: one that names itself under the alias id, one
\* that names itself under canonical_id.
R_FixId ==
  PyDict(<< <<FieldKey.id, PyStr(<<"X">>)>>, <<FieldKey.title, PyStr(T_Fix)>> >>)

R_AddCid ==
  PyDict(<< <<FieldKey.canonical_id, PyStr(<<"C">>)>>, <<FieldKey.title, PyStr(T_Add)>> >>)

\* Further literal shapes: a mapping whose second record has an id; a
\* mapping whose record has a canonical_id; a mapping with a string among
\* its values; a list with a string among its elements, followed by a list
\* of records.
ShapeContents ==
  SourceContents \cup
  { <<"ok", << Node("Assign", "Dict",
                    PyDict(<< << <<"K","1">>, R_Add1 >>, << <<"K","2">>, R_FixId >> >>)) >> >>,
    <<"ok", << Node("Assign", "Dict", PyDict(<< << <<"K","1">>, R_AddCid >> >>)) >> >>,
    <<"ok", << Node("Assign", "Dict",
                    PyDict(<< << <<"K","1">>, R_Add1 >>,
                              << <<"K","2">>, PyStr(<<"o","o","p","s">>) >> >>)) >> >>,
    <<"ok", << Node("Assign", "List", PyList(<< R_Add1, PyStr(<<"x">>) >>)),
               Node("Expr", "List", PyList(<< R_Fix >>)) >> >> }

InitShapes == ParseStart(Workspaces({N_create_a, N_recreate}, ShapeContents))

\* " Add": a title with a leading blank.
T_padded == <<" ","A","d","d">>

\* A key left out, or present with one of the values.
OptItem(k, vals) == { <<>> } \cup { << <<k, v>> >> : v \in vals }

TitleAliasRecords ==
  { PyDict(a \o b \o c) :
      a \in OptItem(FieldKey.title, {None, PyStr(<<>>), PyStr(T_padded)}),
      b \in OptItem(FieldKey.name, {PyStr(T_Fix)}),
      c \in OptItem(FieldKey.summary, {PyStr(T_add)}) }

ParentAliasRecords ==
  { PyDict(<< <<FieldKey.title, PyStr(T_Add)>> >> \o a \o b \o c) :
      a \in OptItem(FieldKey.parent, {PyInt(0), PyStr(K_CORE1)}),
      b \in OptItem(FieldKey.parent_id, {PyInt(7)}),
      c \in OptItem(FieldKey.parent_key, {PyStr(K_CORE9)}) }

\* labels values: "a, b", "a,,b", " a ", ",", "a b", " a\t, ,b ,", and the
\* sequences ['a', 'a'], [' a', ''], [] and ('a',).
LabelValues ==
  { PyStr(<<"a",","," ","b">>), PyStr(<<"a",",",",","b">>), PyStr(<<" ","a"," ">>),
    PyStr(<<",">>), PyStr(<<"a"," ","b">>),
    PyStr(<<" ","a","\t",","," ",",","b"," ",",">>),
    PyList(<< PyStr(<<"a">>), PyStr(<<"a">>) >>),
    PyList(<< PyStr(<<" ","a">>), PyStr(<<>>) >>),
    PyList(<<>>),
    PyTuple(<< PyStr(<<"a">>) >>) }

LabelRecords ==
  { PyDict(<< <<FieldKey.title, PyStr(T_Add)>>, <<FieldKey.labels, v>> >>) : v \in LabelValues }
  \cup
  { PyDict(<< <<FieldKey.title, PyStr(T_Add)>>, <<FieldKey.labels, PyStr(<<>>)>>,
              <<FieldKey.tags, PyStr(<<"x",",","y">>)>> >>),
    PyDict(<< <<FieldKey.title, PyStr(T_Add)>>,
              <<FieldKey.tags, PyList(<< PyStr(<<"y">>), PyStr(<<"x">>) >>)>> >>) }

\* points values: 0, 3, 2.5, 2.0, "3", " -3 ", "2.50", "x", [1], None.
PointsValues ==
  { PyInt(0), PyInt(3), PyFloat(2, <<"5">>), PyFloat(2, <<>>),
    PyStr(<<"3">>), PyStr(<<" ","-","3"," ">>), PyStr(<<"2",".","5","0">>),
    PyStr(<<"x">>), PyList(<< PyInt(1) >>), None }

PointsRecords ==
  { PyDict(<< <<FieldKey.title, PyStr(T_Add)>>, <<FieldKey.points, v>> >>) : v \in PointsValues }
  \cup
  { PyDict(<< <<FieldKey.title, PyStr(T_Add)>>, <<FieldKey.points, PyInt(0)>>,
              <<FieldKey.estimate, PyInt(5)>> >>),
    PyDict(<< <<FieldKey.title, PyStr(T_Add)>>, <<FieldKey.estimate, PyStr(<<"8">>)>> >>) }

\* Records with no key, with an unknown key only, and with values of
\* unexpected types.
OddRecords ==
  { PyDict(<<>>),
    PyDict(<< << <<"f","o","o">>, PyStr(<<"x">>) >> >>),
    PyDict(<< <<FieldKey.title, PyInt(5)>>, <<FieldKey.labels, PyInt(7)>>,
              <<FieldKey.body, PyDict(<<>>)>>, <<FieldKey.priority, PyList(<< PyInt(1) >>)>> >>),
    PyDict(<< <<FieldKey.title, PyStr(T_Add)>>, <<FieldKey.points, PyDict(<<>>)>>,
              <<FieldKey.estimate, PyTuple(<< PyStr(<<"x">>) >>)>> >>) }

\* Files that hold one list of one record, or do not parse.
RecordContents ==
  { <<"syntaxerror">> } \cup
  { <<"ok", << Node("Assign", "List", PyList(<<r>>)) >> >> :
      r \in TitleAliasRecords \cup ParentAliasRecords \cup LabelRecords
             \cup PointsRecords \cup OddRecords }

InitRecords == ParseStart(Workspaces({N_create_all_b, N_recreate}, RecordContents))

\* main() is entered.
MainEntry ==
  /\ pcParse = "idle"
  /\ pcParse' = "scan"
  /\ seen_titles' = {}
  /\ visit' = 1
  /\ runs' = runs + 1
  /\ UNCHANGED <<createVars, compareVars, files, candidate_list, errors, outCandidates, normLog>>

\* The file of the current visit.
CurFile == files[Visits(files)[visit]]

\* extract_literals_from_file raises: the file is recorded in errors.
VisitSourceError ==
  /\ pcParse = "scan"
  /\ visit <= Len(Visits(files))
  /\ extract_literals_from_file(CurFile.content)[1] = "raise"
  /\ errors' = Append(errors, [file |-> CurFile.name, error |-> "SyntaxError"])
  /\ visit' = visit + 1
  /\ UNCHANGED <<createVars, compareVars, files, seen_titles, candidate_list, pcParse, runs,
                 outCandidates, normLog>>

\* One file visit: every literal of the file is processed.
VisitSource ==
  /\ pcParse = "scan"
  /\ visit <= Len(Visits(files))
  /\ extract_literals_from_file(CurFile.content)[1] = "ok"
  /\ LET st == ProcessLiterals([cl |-> candidate_list, seen |-> seen_titles, log |-> normLog],
                               extract_literals_from_file(CurFile.content)[2])
     IN  /\ candidate_list' = st.cl
         /\ seen_titles' = st.seen
         /\ normLog' = st.log
  /\ visit' = visit + 1
  /\ UNCHANGED <<createVars, compareVars, files, errors, pcParse, runs, outCandidates>>

\* The loops are over: canonical_candidates.json is written.
WriteCandidates ==
  /\ pcParse = "scan"
  /\ visit > Len(Visits(files))
  /\ outCandidates' = <<"file", [workspace |-> "WORKSPACE",
                                 candidates_count |-> Len(candidate_list),
                                 candidates |-> candidate_list,
                                 errors |-> errors]>>
  /\ pcParse' = "done"
  /\ UNCHANGED <<createVars, compareVars, files, visit, seen_titles, candidate_list, errors, runs, normLog>>

\* main() is called again in the same process: seen_titles is a new local
\* set, the module-level lists are what the previous call left.
MainAgain ==
  /\ pcParse = "done"
  /\ runs < MaxRuns
  /\ pcParse' = "scan"
  /\ seen_titles' = {}
  /\ visit' = 1
  /\ runs' = runs + 1
  /\ UNCHANGED <<createVars, compareVars, files, candidate_list, errors, outCandidates, normLog>>

\* The script is run again in a new process: the module is loaded anew.
MainInNewProcess ==
  /\ pcParse = "done"
  /\ runs < MaxRuns
  /\ pcParse' = "scan"
  /\ candidate_list' = <<>>
  /\ errors' = <<>>
  /\ seen_titles' = {}
  /\ visit' = 1
  /\ runs' = runs + 1
  /\ UNCHANGED <<createVars, compareVars, files, outCandidates, normLog>>

NextParse == MainEntry \/ VisitSourceError \/ VisitSource \/ WriteCandidates

NextParseTwice == NextParse \/ MainAgain \/ MainInNewProcess

SpecParse == InitParse /\ [][NextParse]_vars

SpecRecords == InitRecords /\ [][NextParse]_vars

SpecShapes == InitShapes /\ [][NextParse]_vars

SpecParseTwice == InitParse /\ [][NextParseTwice]_vars

TypeOK ==
  /\ pc \in {"start", "loop", "exited", "done"}
  /\ scanned \in 0..MaxCands
  /\ fully_correct \in 0..MaxCands
  /\ Len(results) <= scanned

\* ------------------------------------------------------------ properties
\* Positions of the remote tickets whose title equals candidate i's title.
TitleMatches(i) == { k \in 1..Len(remote) : remote[k].title = candidates[i].title }

\* A step that is one completed loop iteration (the snapshot query succeeded).
IterationStep == pc = "loop" /\ pc' = "loop" /\ scanned' = scanned + 1

SameLetter(a, u) == a = u \/ (a \in DOMAIN LowerToUpper /\ LowerToUpper[a] = u)

HasWordAnyCase(b, w) ==
  \E i \in 1..(Len(b) - Len(w) + 1) : \A j \in 1..Len(w) : SameLetter(b[i + j - 1], w[j])

MarkerWords ==
  { <<"R","E","Q","U","I","R","E","S">>, <<"P","R","O","V","I","D","E","S">>,
    <<"P","R","I","O","R","I","T","Y">> }

\* The remote body holds every required marker, in any letter case.
BodyComplete(body) == body[1] = "str" /\ \A w \in MarkerWords : HasWordAnyCase(body[2], w)

\* The single remote ticket matching candidate i (when there is exactly one).
TheMatch(i) == remote[CHOOSE k \in TitleMatches(i) : TRUE]

\* The expected parent number of candidate i.
Expected(i) == map_parent_canonical_to_number(candidates[i].parent_canonical, issues_map)

\* The keys of an export record without diagnostics.
BaseKeys ==
  {"issue_number", "canonical_id", "title", "body", "labels", "state",
   "parent_issue_number", "requires", "provides", "points", "priority",
   "created_at", "url"}

LastOf(s) == s[Len(s)]

\* C1: a candidate whose title matches no remote ticket is classified
\* Missing: exactly one export record is appended for it, the record has no
\* 'notes' block, and fully_correct is not incremented.
C1_MissingOnNoMatch ==
  [][ (IterationStep /\ TitleMatches(scanned + 1) = {}) =>
        /\ results' = Append(results, "Missing")
        /\ Len(exported') = Len(exported) + 1
        /\ SubSeq(exported', 1, Len(exported)) = exported
        /\ LastOf(exported').title = candidates[scanned + 1].title
        /\ "notes" \notin DOMAIN LastOf(exported')
        /\ fully_correct' = fully_correct ]_vars

\* A Missing candidate was processed against a non-empty remote store.
C1_Witness ==
  \E i \in 1..Len(results) :
    results[i] = "Missing" /\ TitleMatches(i) = {} /\ Len(remote) > 0 /\ Len(exported) > 0

\* C2: a candidate whose title matches two or more remote tickets is
\* classified Ambiguous, never Correct: fully_correct stays and the
\* candidate is exported, whatever the remote bodies and parents are.
C2_AmbiguousNeverCorrect ==
  [][ (IterationStep /\ Cardinality(TitleMatches(scanned + 1)) >= 2) =>
        /\ results' = Append(results, "Ambiguous")
        /\ fully_correct' = fully_correct
        /\ Len(exported') = Len(exported) + 1
        /\ SubSeq(exported', 1, Len(exported)) = exported
        /\ LastOf(exported').title = candidates[scanned + 1].title ]_vars

\* An Ambiguous candidate whose every match has a complete body and whose
\* expected parent is null (each match would pass both checks alone).
C2_Witness ==
  \E i \in 1..Len(results) :
    /\ results[i] = "Ambiguous"
    /\ Cardinality(TitleMatches(i)) >= 2
    /\ \A k \in TitleMatches(i) : BodyComplete(remote[k].body)
    /\ IsNone(Expected(i))

\* C3: a candidate with exactly one title match, a remote body holding all
\* three markers in any letter case and a looked-up parent equal to the
\* expected parent (both null included) is classified Correct: no export
\* record is produced and fully_correct increases by exactly 1.
C3_CorrectOnFullMatch ==
  [][ (/\ IterationStep
       /\ Cardinality(TitleMatches(scanned + 1)) = 1
       /\ BodyComplete(TheMatch(scanned + 1).body)
       /\ LastOf(calls').op = "parent"
       /\ LastOf(calls').result = Expected(scanned + 1)) =>
        /\ results' = Append(results, "Correct")
        /\ exported' = exported
        /\ fully_correct' = fully_correct + 1 ]_vars

\* Two Correct candidates with a mixed-case body: one with both parents
\* null, one with a non-null expected parent found remotely.
C3_Witness ==
  \E i, j \in 1..Len(results) :
    /\ results[i] = "Correct" /\ results[j] = "Correct"
    /\ IsNone(Expected(i)) /\ Expected(j) = PyInt(42)
    /\ TheMatch(i).body = PyStr(B_full_mixed)
    /\ fully_correct = 2 /\ exported = <<>>

\* C4: a candidate with exactly one title match whose remote body lacks one
\* of REQUIRES, PROVIDES, PRIORITY (any letter case, substring containment)
\* is classified Incomplete with notes.body_has_required_fields = false,
\* whatever the parent check yields; appending a POINTS marker to the body
\* does not change the outcome of the body check.
C4_IncompleteOnMissingMarker ==
  [][ (IterationStep /\ Cardinality(TitleMatches(scanned + 1)) = 1) =>
        LET body == TheMatch(scanned + 1).body
            text == IF body[1] = "str" THEN body[2] ELSE <<>>
        IN  /\ body_has_required_fields(PyStr(text \o <<" ","P","O","I","N","T","S">>))
                 = body_has_required_fields(PyStr(text))
            /\ ~BodyComplete(body) =>
                 /\ results' = Append(results, "Incomplete")
                 /\ Len(exported') = Len(exported) + 1
                 /\ "notes" \in DOMAIN LastOf(exported')
                 /\ LastOf(exported').notes.body_has_required_fields = FALSE
                 /\ fully_correct' = fully_correct ]_vars

\* An Incomplete candidate whose remote body lacks PRIORITY but holds
\* POINTS, and whose parent check passes.
C4_Witness ==
  \E i \in 1..Len(results) :
    /\ results[i] = "Incomplete"
    /\ Cardinality(TitleMatches(i)) = 1
    /\ TheMatch(i).body = PyStr(B_no_priority)
    /\ \E k \in 1..Len(exported) :
         /\ "notes" \in DOMAIN exported[k]
         /\ exported[k].notes.remote_issue_number = TheMatch(i).number
         /\ exported[k].notes.remote_parent_number = Expected(i)
         /\ exported[k].notes.body_has_required_fields = FALSE

\* C5: a candidate with exactly one title match whose looked-up remote
\* parent differs from the expected parent number is exported as Incomplete
\* with notes.remote_parent_number equal to the looked-up parent, even when
\* the body holds every required marker.
C5_IncompleteOnParentMismatch ==
  [][ (/\ IterationStep
       /\ Cardinality(TitleMatches(scanned + 1)) = 1
       /\ LastOf(calls').op = "parent"
       /\ LastOf(calls').result # Expected(scanned + 1)) =>
        /\ results' = Append(results, "Incomplete")
        /\ Len(exported') = Len(exported) + 1
        /\ "notes" \in DOMAIN LastOf(exported')
        /\ LastOf(exported').notes.remote_parent_number = LastOf(calls').result
        /\ fully_correct' = fully_correct ]_vars

\* An Incomplete candidate with a complete body, expected parent 42 and
\* looked-up parent 7.
C5_Witness ==
  \E i \in 1..Len(results) :
    /\ results[i] = "Incomplete"
    /\ Cardinality(TitleMatches(i)) = 1
    /\ BodyComplete(TheMatch(i).body)
    /\ Expected(i) = PyInt(42)
    /\ \E k \in 1..Len(exported) :
         /\ "notes" \in DOMAIN exported[k]
         /\ exported[k].notes.remote_issue_number = TheMatch(i).number
         /\ exported[k].notes.remote_parent_number = PyInt(7)
         /\ exported[k].notes.body_has_required_fields = TRUE

\* The indices, in input order, of the processed candidates not classified Correct.
NonCorrectIdx ==
  SelectSeq([i \in 1..Len(results) |-> i], LAMBDA i : results[i] # "Correct")

\* C6: after a completed run the export list holds exactly one record for
\* each candidate classified Missing, Ambiguous or Incomplete, none for a
\* Correct candidate, in the order of the candidates in the input.
C6_ExportIsNonCorrectInOrder ==
  pc = "done" =>
    /\ Len(results) = Len(candidates)
    /\ outFile = <<"file", exported>>
    /\ Len(exported) = Len(NonCorrectIdx)
    /\ \A k \in 1..Len(exported) :
         /\ exported[k].title = candidates[NonCorrectIdx[k]].title
         /\ exported[k].parent_issue_number = Expected(NonCorrectIdx[k])

\* A completed run that exported two records for two distinguishable
\* candidates, the second of them Incomplete.
C6_Witness ==
  /\ pc = "done"
  /\ Len(exported) = 2
  /\ results[2] = "Incomplete"
  /\ results[1] \in {"Missing", "Ambiguous"}
  /\ exported[1].parent_issue_number # exported[2].parent_issue_number

\* A completed run that left a Correct candidate out and exported the next one.
C6_WitnessOmitted ==
  pc = "done" /\ Len(results) = 2 /\ results[1] = "Correct" /\ Len(exported) = 1

CanonicalFields ==
  {"canonical_id", "title", "body", "labels", "requires", "provides", "points", "priority"}

\* C7: every export record carries the candidate's canonical fields
\* verbatim (canonical_id, title, body, labels, requires, provides, points,
\* priority), for every candidate value, points equal to 0 included.
C7_FieldsVerbatim ==
  \A k \in 1..Len(exported) :
    \A f \in CanonicalFields : exported[k][f] = candidates[NonCorrectIdx[k]][f]

\* C8: an export record has a 'notes' block (matched remote number, its
\* looked-up parent number, body-completeness boolean) if and only if the
\* candidate was classified Incomplete.
C8_NotesIffIncomplete ==
  /\ Len(exported) = Len(NonCorrectIdx)
  /\ \A k \in 1..Len(exported) :
       LET i == NonCorrectIdx[k]
       IN  /\ ("notes" \in DOMAIN exported[k]) <=> (results[i] = "Incomplete")
           /\ results[i] = "Incomplete" =>
                /\ DOMAIN exported[k].notes =
                     {"remote_issue_number", "remote_parent_number", "body_has_required_fields"}
                /\ exported[k].notes.remote_issue_number = TheMatch(i).number
                /\ exported[k].notes.body_has_required_fields = BodyComplete(TheMatch(i).body)
                /\ \E j \in 1..Len(calls) :
                     /\ calls[j].op = "parent"
                     /\ calls[j].cand = i
                     /\ calls[j].result = exported[k].notes.remote_parent_number

\* One record of each kind: Missing or Ambiguous without notes, Incomplete with notes.
C8_Witness ==
  /\ Len(exported) = 2
  /\ \E k \in 1..2 : "notes" \in DOMAIN exported[k]
  /\ \E k \in 1..2 : "notes" \notin DOMAIN exported[k]

\* The numbers of the remote tickets matching candidate i, in store order.
MatchNumbers(i) ==
  LET ks == SelectSeq([k \in 1..Len(remote) |-> k], LAMBDA k : k \in TitleMatches(i))
  IN  [j \in 1..Len(ks) |-> remote[ks[j]].number]

\* C9 as stated: the export record of an Ambiguous candidate carries an
\* ambiguity annotation, and the ambiguous counter increases by 1.
C9_ExportRecordAnnotated ==
  [][ (IterationStep /\ Cardinality(TitleMatches(scanned + 1)) >= 2) =>
        /\ Len(exported') = Len(exported) + 1
        /\ DOMAIN LastOf(exported') \ BaseKeys # {}
        /\ Len(ambiguous') = Len(ambiguous) + 1 ]_vars

\* C9 amended: an Ambiguous candidate is exported with a record that has
\* no annotation (the keys of a Missing record), and one entry holding its
\* title and the numbers of all matching remote tickets is appended to the
\* run's ambiguous list, whose length grows by exactly 1.
C9_AmbiguousListed ==
  [][ (IterationStep /\ Cardinality(TitleMatches(scanned + 1)) >= 2) =>
        /\ Len(exported') = Len(exported) + 1
        /\ DOMAIN LastOf(exported') = BaseKeys
        /\ LastOf(exported').title = candidates[scanned + 1].title
        /\ ambiguous' = Append(ambiguous,
               [title |-> candidates[scanned + 1].title,
                matches |-> MatchNumbers(scanned + 1)]) ]_vars

\* An Ambiguous candidate was listed with both matching numbers.
C9_Witness ==
  /\ Len(ambiguous) >= 1
  /\ Len(ambiguous[1].matches) >= 2
  /\ \E i \in 1..Len(results) :
       results[i] = "Ambiguous" /\ ambiguous[1].matches = MatchNumbers(i)

\* C10: when the snapshot query fails for a candidate (the first or a later
\* one) the run ends at once with a non-zero exit status and the export
\* artifact is not written.
C10_NoPartialExport ==
  \A j \in 1..Len(calls) :
    (calls[j].op = "list" /\ calls[j].result = "raise") =>
      /\ j = Len(calls)
      /\ pc = "exited"
      /\ exitStatus[1] = "int" /\ exitStatus[2] # 0
      /\ outFile = Absent

\* The query failed for the second candidate after a record was computed for the first.
C10_Witness ==
  /\ pc = "exited"
  /\ Len(calls) >= 2
  /\ LastOf(calls).op = "list" /\ LastOf(calls).result = "raise"
  /\ Len(exported) = 1

\* C11: a failed parent lookup for a uniquely matched remote ticket never
\* aborts the run: the actual parent is taken to be null, so the candidate is
\* Correct when its expected parent is null and its body is complete, and
\* Incomplete with notes.remote_parent_number = null when its expected parent
\* is not null; the loop goes on with the remaining candidates.
C11_LookupFailureIsNoParent ==
  [][ (/\ pc = "loop"
       /\ Len(calls') > Len(calls)
       /\ LastOf(calls').op = "parent"
       /\ LastOf(calls').failed) =>
        /\ pc' = "loop"
        /\ exitStatus' = None
        /\ scanned' = scanned + 1
        /\ LastOf(calls').result = None
        /\ (IsNone(Expected(scanned + 1)) /\ BodyComplete(TheMatch(scanned + 1).body)) =>
              /\ results' = Append(results, "Correct")
              /\ fully_correct' = fully_correct + 1
              /\ exported' = exported
        /\ ~IsNone(Expected(scanned + 1)) =>
              /\ results' = Append(results, "Incomplete")
              /\ Len(exported') = Len(exported) + 1
              /\ "notes" \in DOMAIN LastOf(exported')
              /\ LastOf(exported').notes.remote_parent_number = None ]_vars

\* The lookup failed for the first candidate, which became Incomplete with a
\* null remote parent, and the second candidate was processed after it.
C11_Witness ==
  /\ Len(results) = 2
  /\ results[1] = "Incomplete"
  /\ ~IsNone(Expected(1))
  /\ BodyComplete(TheMatch(1).body)
  /\ \E j \in 1..Len(calls) : calls[j].op = "parent" /\ calls[j].cand = 1 /\ calls[j].failed
  /\ exported[1].notes.remote_parent_number = None

\* C16: the remote calls are strictly sequential in candidate order: the
\* snapshot query of a candidate comes first, its parent lookup (if any)
\* next, both before the query of the next candidate; a failed query is the
\* last remote call of the run.
C16_CallsSequential ==
  /\ \A j \in 1..Len(calls) :
       /\ calls[j].op = "list" =>
            /\ calls[j].cand = Cardinality({ k \in 1..j : calls[k].op = "list" })
            /\ calls[j].result = "raise" => j = Len(calls)
       /\ calls[j].op = "parent" =>
            /\ j > 1
            /\ calls[j - 1].op = "list"
            /\ calls[j - 1].cand = calls[j].cand
            /\ calls[j - 1].result = "ok"
  /\ Cardinality({ k \in 1..Len(calls) : calls[k].op = "list" }) = scanned
  /\ pc = "exited" /\ calls # <<>> => LastOf(calls).op = "list"

\* Two candidates were processed, each with a query and a parent lookup.
C16_Witness ==
  /\ Len(calls) = 4
  /\ calls[2].op = "parent" /\ calls[4].op = "parent"
  /\ calls[3].cand = 2

\* A query failed for the second candidate after a parent lookup for the first.
C16_WitnessFail ==
  /\ Len(calls) = 3
  /\ calls[2].op = "parent"
  /\ calls[3].op = "list" /\ calls[3].result = "raise"
  /\ pc = "exited"

\* The expected parent as the resolution rule states it: null when the
\* reference is absent, the value itself when it is an integer, otherwise
\* the IssueMap entry when there is one and null when there is none.
ResolvedParent(v) ==
  IF IsNone(v) THEN None
  ELSE IF IsInt(v) THEN v
  ELSE IF v[2] \in DOMAIN issues_map THEN issues_map[v[2]]
  ELSE None

\* C12: map_parent_canonical_to_number returns null for an absent
\* parent_canonical, the value itself for every integer value, otherwise the
\* IssueMap entry when one exists and null when none exists (seen in the
\* parent_issue_number of every export record).
C12_ParentResolution ==
  \A k \in 1..Len(exported) :
    exported[k].parent_issue_number = ResolvedParent(candidates[NonCorrectIdx[k]].parent_canonical)

\* Two texts are equal character for character.
SameText(a, b) == Len(a) = Len(b) /\ \A n \in 1..Len(a) : a[n] = b[n]

\* Positions of the remote tickets whose title is exactly candidate i's title.
ExactMatches(i) ==
  { k \in 1..Len(remote) : SameText(remote[k].title[2], candidates[i].title[2]) }

\* C13: the matches of a candidate are exactly the returned remote tickets
\* whose title equals the candidate's title character for character; a
\* title differing in letter case, surrounding whitespace, or being a
\* substring or superstring is never a match.
C13_ExactTitleMatch ==
  [][ IterationStep =>
        LET E == ExactMatches(scanned + 1)
        IN  /\ E = {} => LastOf(results') = "Missing"
            /\ Cardinality(E) = 1 =>
                 /\ LastOf(results') \in {"Correct", "Incomplete"}
                 /\ LastOf(calls').op = "parent"
                 /\ \A k \in E : LastOf(calls').number = remote[k].number
            /\ Cardinality(E) >= 2 =>
                 /\ LastOf(results') = "Ambiguous"
                 /\ Len(LastOf(ambiguous').matches) = Cardinality(E)
                 /\ \A k \in E : \E n \in 1..Cardinality(E) :
                      LastOf(ambiguous').matches[n] = remote[k].number ]_vars

\* One candidate has a single match although a title differing only in case
\* is in the store, and another is Missing although a superstring of its
\* title is in the store.
C13_Witness ==
  \E i, j \in 1..Len(results) :
    /\ results[i] = "Correct"
    /\ \E k \in 1..Len(remote) :
         /\ remote[k].title # candidates[i].title
         /\ Upper(remote[k].title[2]) = Upper(candidates[i].title[2])
    /\ results[j] = "Missing"
    /\ \E k \in 1..Len(remote) : Contains(candidates[j].title[2], remote[k].title[2])

\* C14: a remote ticket whose title equals the candidate's title is found
\* by the snapshot query however many tickets the remote store holds: a
\* candidate is never classified Missing while such a ticket exists.
C14_NeverMissingWhileExists ==
  \A i \in 1..Len(results) : results[i] = "Missing" => TitleMatches(i) = {}

\* Number of tickets of the store as it was at the start of the run whose
\* title equals candidate i's title.
StartMatchCount(i) ==
  Cardinality({ k \in 1..Len(remoteAtStart) : remoteAtStart[k].title = candidates[i].title })

\* C15: every candidate of a run is classified against the remote state
\* that existed at the start of the run: a ticket created, retitled or
\* deleted during the run does not alter any classification.
C15_ClassifiedAgainstStartSnapshot ==
  \A i \in 1..Len(results) :
    /\ results[i] = "Missing" <=> StartMatchCount(i) = 0
    /\ results[i] = "Ambiguous" <=> StartMatchCount(i) >= 2

\* ------------------------------------------------------------ properties of the parser
HasKey(d, k) == \E i \in 1..Len(d[2]) : d[2][i][1] = k

TitleAliases == <<FieldKey.title, FieldKey.name, FieldKey.summary>>

ParentAliases == <<FieldKey.parent, FieldKey.parent_id, FieldKey.parent_key>>

AnyPresent(d, ks) == \E i \in 1..Len(ks) : HasKey(d, ks[i])

\* The value of the first key of ks that d holds.
FirstPresentValue(d, ks) ==
  DictGet(d, ks[MinOf({ i \in 1..Len(ks) : HasKey(d, ks[i]) })])

\* The value of the first key of ks whose value in d is non-empty, else dflt.
FirstNonEmptyValue(d, ks, dflt) ==
  LET idx == { i \in 1..Len(ks) : Truthy(DictGet(d, ks[i])) }
  IN  IF idx = {} THEN dflt ELSE DictGet(d, ks[MinOf(idx)])

Titled == { n \in 1..Len(normLog) : Truthy(normLog[n][2].title) }

\* C18: the candidate list holds exactly one ticket per distinct non-empty
\* title met in the sources, none with an empty title, and the ticket kept
\* for a title is the one of the first record met with that title.
C18_OnePerTitleFirstWins ==
  /\ \A i, j \in 1..Len(candidate_list) :
       candidate_list[i].title = candidate_list[j].title => i = j
  /\ \A i \in 1..Len(candidate_list) : candidate_list[i].title # PyStr(<<>>)
  /\ { candidate_list[i].title : i \in 1..Len(candidate_list) }
       = { normLog[n][2].title : n \in Titled }
  /\ \A i \in 1..Len(candidate_list) :
       candidate_list[i] =
         normLog[MinOf({ n \in Titled : normLog[n][2].title = candidate_list[i].title })][2]

\* The run is over; a file was visited under two patterns, two different
\* records shared a title, and a record had no title.
C18_Witness ==
  /\ pcParse = "done"
  /\ \E a, b \in 1..Len(Visits(files)) : a # b /\ Visits(files)[a] = Visits(files)[b]
  /\ \E m, n \in Titled :
       /\ normLog[m][2].title = normLog[n][2].title
       /\ normLog[m][2] # normLog[n][2]
  /\ \E n \in 1..Len(normLog) : n \notin Titled
  /\ Len(candidate_list) >= 2

\* C19: a second run of main on the same sources writes the same candidates
\* and the same errors as the first, also in the same process.
C19_SecondRunSameOutput ==
  [][(pcParse' = "done" /\ outCandidates[1] = "file") => outCandidates' = outCandidates]_vars

\* The value normalize_ticket takes the labels from: labels, else tags.
LabelSource(d) == FirstNonEmptyValue(d, <<FieldKey.labels, FieldKey.tags>>, PyList(<<>>))

\* The cuts of s: before the first character, each comma, after the last.
Cuts(s) == {0, Len(s) + 1} \cup { i \in 1..Len(s) : s[i] = "," }

\* The k-th cut from the left.
Cut(s, k) == CHOOSE c \in Cuts(s) : Cardinality({ x \in Cuts(s) : x < c }) = k - 1

\* The k-th comma-separated piece of s without its surrounding whitespace.
TrimmedPiece(s, k) ==
  LET inside == { i \in (Cut(s, k) + 1)..(Cut(s, k + 1) - 1) : s[i] \notin Whitespace }
  IN  IF inside = {} THEN <<>> ELSE SubSeq(s, MinOf(inside), MaxOf(inside))

\* The non-empty trimmed pieces of s, in order.
ExpectedLabels(s) ==
  LET all == [k \in 1..(Cardinality(Cuts(s)) - 1) |-> PyStr(TrimmedPiece(s, k))]
  IN  SelectSeq(all, LAMBDA piece : piece[2] # <<>>)

\* C20: a string source of the labels gives its comma-separated pieces,
\* trimmed, without the empty ones, in order; a sequence source is kept
\* unchanged.
C20_LabelsNormalized ==
  \A n \in 1..Len(normLog) :
    LET src == LabelSource(normLog[n][1])
        c == normLog[n][2]
    IN  /\ src[1] = "str" => c.labels = PyList(ExpectedLabels(src[2]))
        /\ src[1] \in {"list", "tuple"} => c.labels = src

\* A string with padded and empty pieces was split into two labels, and a
\* list with a repeated element was kept.
C20_Witness ==
  /\ \E n \in 1..Len(normLog) :
       /\ DictGet(normLog[n][1], FieldKey.labels)
            = PyStr(<<" ","a","\t",","," ",",","b"," ",",">>)
       /\ normLog[n][2].labels = PyList(<< PyStr(<<"a">>), PyStr(<<"b">>) >>)
  /\ \E n \in 1..Len(normLog) :
       /\ DictGet(normLog[n][1], FieldKey.labels) = PyList(<< PyStr(<<"a">>), PyStr(<<"a">>) >>)
       /\ normLog[n][2].labels = PyList(<< PyStr(<<"a">>), PyStr(<<"a">>) >>)

\* The value the claim takes the points from: points, else estimate.
PointsSource(d) ==
  IF HasKey(d, FieldKey.points) THEN DictGet(d, FieldKey.points)
  ELSE DictGet(d, FieldKey.estimate)

\* Two numbers of the same numeric value.
SameNumber(a, b) ==
  \/ a = b
  \/ a[1] = "int" /\ b[1] = "float" /\ b[3] = <<>> /\ a[2] = b[2]
  \/ a[1] = "float" /\ b[1] = "int" /\ a[3] = <<>> /\ a[2] = b[2]

\* C21: the canonical points are the source value's integer coercion, else
\* its floating-point coercion, else null; a numeric source value keeps its
\* numeric value (0 stays 0, 2.5 is not truncated); nothing raises.
C21_PointsCoerced ==
  \A n \in 1..Len(normLog) :
    LET src == PointsSource(normLog[n][1])
        pts == normLog[n][2].points
    IN  /\ pts[1] # "raise"
        /\ src[1] \in {"int", "float"} => SameNumber(pts, src)
        /\ src[1] = "str" =>
             pts = (IF IntOf(src)[1] # "raise" THEN IntOf(src)
                    ELSE IF FloatOf(src)[1] # "raise" THEN FloatOf(src)
                    ELSE None)
        /\ src[1] \notin {"int", "float", "str"} => pts = None

CanonicalKeys ==
  {"canonical_id", "title", "body", "labels", "parent_canonical", "points", "priority",
   "requires", "provides"}

\* The aliases of each canonical field.
FieldAliases ==
  [ canonical_id     |-> <<FieldKey.canonical_id, FieldKey.id, FieldKey.key, FieldKey.ticket_id>>,
    title            |-> TitleAliases,
    body             |-> <<FieldKey.body, FieldKey.description, FieldKey.desc>>,
    labels           |-> <<FieldKey.labels, FieldKey.tags>>,
    parent_canonical |-> ParentAliases,
    points           |-> <<FieldKey.points, FieldKey.estimate>>,
    priority         |-> <<FieldKey.priority>>,
    requires         |-> <<FieldKey.requires, FieldKey.REQUIRES>>,
    provides         |-> <<FieldKey.provides, FieldKey.PROVIDES>> ]

\* The neutral value of each canonical field.
Neutral ==
  [ canonical_id     |-> None,
    title            |-> PyStr(<<>>),
    body             |-> PyStr(<<>>),
    labels           |-> PyList(<<>>),
    parent_canonical |-> None,
    points           |-> None,
    priority         |-> None,
    requires         |-> PyStr(<<>>),
    provides         |-> PyStr(<<>>) ]

\* C22: normalize_ticket fails on no raw record: the result has the nine
\* canonical fields, and a field none of whose aliases is a key of the
\* record has its neutral value.
C22_TotalWithNeutrals ==
  \A n \in 1..Len(normLog) :
    LET d == normLog[n][1]
        c == normLog[n][2]
    IN  /\ DOMAIN c = CanonicalKeys
        /\ \A f \in CanonicalKeys :
             /\ c[f][1] # "raise"
             /\ ~AnyPresent(d, FieldAliases[f]) => c[f] = Neutral[f]

\* The empty record was normalized to the nine neutral values, and a record
\* whose points and estimate cannot be coerced got null points.
C22_Witness ==
  /\ \E n \in 1..Len(normLog) :
       /\ normLog[n][1] = PyDict(<<>>)
       /\ normLog[n][2] = Neutral
  /\ \E n \in 1..Len(normLog) :
       /\ DictGet(normLog[n][1], FieldKey.points) = PyDict(<<>>)
       /\ DictGet(normLog[n][1], FieldKey.estimate) = PyTuple(<< PyStr(<<"x">>) >>)
       /\ normLog[n][2].points = None

\* A step that is one visit of a file that parses.
VisitStep == pcParse = "scan" /\ visit' = visit + 1 /\ CurFile.content[1] = "ok"

\* The nodes of a file that the extractor collects as literals.
Collected(content) ==
  SelectSeq(content[2], LAMBDA node : /\ node.stmt \in {"Assign", "Expr"}
                                      /\ node.ast \in {"List", "Tuple", "Dict"}
                                      /\ node.obj[1] # "raise")

\* lit is a mapping of records: a non-empty dict all of whose values are dicts.
IsMappingOfRecords(lit) ==
  /\ lit[1] = "dictlit"
  /\ lit[2] # <<>>
  /\ \A i \in 1..Len(lit[2]) : lit[2][i][2][1] = "dictlit"

\* The candidates a step has appended.
NewCandidates ==
  { candidate_list'[i] : i \in (Len(candidate_list) + 1)..Len(candidate_list') }

IdAliases == <<FieldKey.canonical_id, FieldKey.id, FieldKey.key, FieldKey.ticket_id>>

\* The candidate the claim expects of the entry (k, v) of a mapping: the
\* record's own identifier when it has one, else the key.
ExpectedOfEntry(k, v) ==
  [normalize_ticket(v) EXCEPT
     !.canonical_id = LET own == FirstNonEmptyValue(v, IdAliases, None)
                      IN  IF own = None THEN PyStr(k) ELSE own]

\* C23: in a file that holds mappings of records only, every candidate
\* obtained has the mapping key as canonical_id when its record names no
\* identifier, and its record's own identifier (canonical_id, id, key or
\* ticket_id) when it names one.
C23_MappingKeyIsDefaultId ==
  [][(VisitStep /\ \A m \in 1..Len(Collected(CurFile.content)) :
                     IsMappingOfRecords(Collected(CurFile.content)[m].obj))
       => \A c \in NewCandidates :
            \E m \in 1..Len(Collected(CurFile.content)) :
              \E e \in 1..Len(Collected(CurFile.content)[m].obj[2]) :
                c = ExpectedOfEntry(Collected(CurFile.content)[m].obj[2][e][1],
                                    Collected(CurFile.content)[m].obj[2][e][2])]_vars

\* The titles of the candidate list after the step.
TitlesAfter == { candidate_list'[i].title : i \in 1..Len(candidate_list') }

\* C24: a mapping with a string among its values fails nothing and adds no
\* error, and its entries that are records with a title still give their
\* candidates.
C24_StringEntrySkipped ==
  [][VisitStep
       => \A m \in 1..Len(Collected(CurFile.content)) :
            LET lit == Collected(CurFile.content)[m].obj
            IN  (lit[1] = "dictlit" /\ \E e \in 1..Len(lit[2]) : lit[2][e][2][1] = "str")
                  => /\ errors' = errors
                     /\ \A e \in 1..Len(lit[2]) :
                          (lit[2][e][2][1] = "dictlit"
                             /\ Truthy(FirstNonEmptyValue(lit[2][e][2], TitleAliases, PyStr(<<>>))))
                            => FirstNonEmptyValue(lit[2][e][2], TitleAliases, PyStr(<<>>))
                                 \in TitlesAfter]_vars

\* The files of fs that parse.
ParsableFiles(fs) == SelectSeq(fs, LAMBDA f : f.content[1] = "ok")

\* The candidates one run obtains from the directory fs of parsable files.
RECURSIVE CandidatesFrom(_, _, _)
CandidatesFrom(fs, v, st) ==
  IF v > Len(Visits(fs)) THEN st.cl
  ELSE CandidatesFrom(fs, v + 1,
         ProcessLiterals(st, extract_literals_from_file(fs[Visits(fs)[v]].content)[2]))

\* C25: at the end of a run every visited source that does not parse has
\* one entry in the errors list, the candidates are those of the same
\* directory without the unparsable sources, and the output file is written.
C25_ParseErrorRecordedOnce ==
  pcParse = "done" =>
    /\ \A v \in 1..Len(Visits(files)) :
         files[Visits(files)[v]].content[1] # "ok" =>
           Cardinality({ e \in 1..Len(errors) :
                           errors[e].file = files[Visits(files)[v]].name }) = 1
    /\ candidate_list
         = CandidatesFrom(ParsableFiles(files), 1, [cl |-> <<>>, seen |-> {}, log |-> <<>>])
    /\ outCandidates[1] = "file"

\* A collected literal the claim lets through: a dict, or a list or tuple
\* all of whose elements are dicts.
RecordShaped(lit) ==
  \/ lit[1] = "dictlit"
  \/ lit[1] \in {"list", "tuple"} /\ \A i \in 1..Len(lit[2]) : lit[2][i][1] = "dictlit"

\* The literals of a file without the ones that are to be skipped.
KeptLiterals(content) ==
  LET kept == SelectSeq(Collected(content), LAMBDA node : RecordShaped(node.obj))
  IN  [i \in 1..Len(kept) |-> kept[i].obj]

RecordsOf(lit) ==
  IF lit[1] \in {"list", "tuple"} /\ \A i \in 1..Len(lit[2]) : lit[2][i][1] = "dictlit"
  THEN { lit[2][i] : i \in 1..Len(lit[2]) }
  ELSE IF lit[1] = "dictlit" /\ ~IsMappingOfRecords(lit) THEN {lit}
  ELSE {}

\* C27: after a visit of a file, every record with a non-empty title that
\* is a top-level literal of the file or an element of a top-level list or
\* tuple of records has a candidate with its title.
C27_RecordsOfListsAndTuples ==
  [][VisitStep
       => \A m \in 1..Len(Collected(CurFile.content)) :
            \A r \in RecordsOf(Collected(CurFile.content)[m].obj) :
              Truthy(FirstNonEmptyValue(r, TitleAliases, PyStr(<<>>)))
                => FirstNonEmptyValue(r, TitleAliases, PyStr(<<>>)) \in TitlesAfter]_vars

\* C28: between iterations and at normal completion scanned is the sum of
\* fully_correct and the number of export records, and the ambiguous list
\* is no longer than the export list; at normal completion scanned is the
\* number of candidates of the input.
C28_CountersAddUp ==
  /\ pc \in {"loop", "done"} =>
       /\ scanned = fully_correct + Len(exported)
       /\ Len(ambiguous) <= Len(exported)
  /\ pc = "done" => scanned = Len(candidates)

\* A run of two candidates ended with one Correct and one exported.
C28_Witness ==
  /\ pc = "done"
  /\ scanned = 2
  /\ fully_correct = 1
  /\ Len(exported) = 1

\* The parent lookups issued for candidate i.
ParentCallsOf(i) == { j \in 1..Len(calls) : calls[j].op = "parent" /\ calls[j].cand = i }

\* C29: a parent lookup is issued only for a candidate whose title has
\* exactly one match, at most once, and after that candidate's snapshot
\* query; none is issued for a candidate with no match or several matches.
C29_ParentLookupOnlyOnSingleMatch ==
  \A i \in 1..scanned :
    /\ Cardinality(ParentCallsOf(i)) <= 1
    /\ \A j \in ParentCallsOf(i) :
         /\ Cardinality(TitleMatches(i)) = 1
         /\ \E k \in 1..(j - 1) :
              calls[k].op = "list" /\ calls[k].cand = i /\ calls[k].result = "ok"
    /\ Cardinality(TitleMatches(i)) # 1 => ParentCallsOf(i) = {}

\* Of two processed candidates one had no single match and no lookup, the
\* other had one match and its lookup.
C29_Witness ==
  /\ scanned = 2
  /\ \E i \in 1..2 : Cardinality(TitleMatches(i)) # 1 /\ ParentCallsOf(i) = {}
  /\ \E i \in 1..2 : Cardinality(TitleMatches(i)) = 1 /\ Cardinality(ParentCallsOf(i)) = 1

\* ------------------------------------------------------------ create_all_remaining.main()
\* Possible results of `gh issue create`: a non-zero exit, success with the
\* issue URL on stdout, success with output that holds no issue URL.
GhIssueCreateRuns(n) ==
  { [returncode |-> 1, stdout |-> <<"nourl">>],
    [returncode |-> 0, stdout |-> <<"url", n>>],
    [returncode |-> 0, stdout |-> <<"nourl">>] }

\* The issue number, None when the command fails or prints no issue URL.
create_issue(p) ==
  IF p.returncode # 0 THEN None
  ELSE IF p.stdout[1] = "url" THEN PyInt(p.stdout[2])
  ELSE None

\* The tickets grouped by parent, the parents in order of first appearance.
GroupByParent(ts) ==
  LET firsts == SelectSeq([i \in 1..Len(ts) |-> i],
                          LAMBDA i : \A j \in 1..(i - 1) : ts[j].parent # ts[i].parent)
  IN  [g \in 1..Len(firsts) |->
         [parent_id |-> ts[firsts[g]].parent,
          children  |-> SelectSeq(ts, LAMBDA t : t.parent = ts[firsts[g]].parent)]]

\* The script is loaded with its ticket list and issue_map.json; the parent
\* of a ticket is in the map or not.
InitCreate ==
  /\ CompareIdle
  /\ ParseIdle
  /\ remaining_tickets \in
       SeqsUpTo([title : {PyStr(T_Add)}, parent : {K_CORE1, K_CORE9}], MaxTickets)
  /\ parent_children = <<>>
  /\ grp = 0
  /\ child = 0
  /\ child_nums = <<>>
  /\ total_created = 0
  /\ pcCreate = "start"
  /\ reported = None
  /\ created_ok = 0

\* main groups the tickets by parent and starts the loop over the parents.
GroupTickets ==
  /\ pcCreate = "start"
  /\ parent_children' = GroupByParent(remaining_tickets)
  /\ total_created' = 0
  /\ grp' = 1
  /\ pcCreate' = "parents"
  /\ UNCHANGED <<compareVars, parseVars, remaining_tickets, child, child_nums, reported,
                 created_ok>>

\* issue_map.get(parent_id)
ParentNum(g) ==
  IF parent_children[g].parent_id \in DOMAIN issues_map
  THEN issues_map[parent_children[g].parent_id] ELSE None

\* The parent of the group is not in the map: the group is skipped.
ParentNotFound ==
  /\ pcCreate = "parents"
  /\ grp <= Len(parent_children)
  /\ ~Truthy(ParentNum(grp))
  /\ grp' = grp + 1
  /\ UNCHANGED <<compareVars, parseVars, remaining_tickets, parent_children, child, child_nums,
                 total_created, pcCreate, reported, created_ok>>

\* The parent is in the map: the loop over its children starts.
ParentFound ==
  /\ pcCreate = "parents"
  /\ grp <= Len(parent_children)
  /\ Truthy(ParentNum(grp))
  /\ child_nums' = <<>>
  /\ child' = 1
  /\ pcCreate' = "children"
  /\ UNCHANGED <<compareVars, parseVars, remaining_tickets, parent_children, grp,
                 total_created, reported, created_ok>>

\* One child: create_issue is called; a returned number is kept and the
\* child reference added; total_created is incremented.
CreateChild ==
  /\ pcCreate = "children"
  /\ child <= Len(parent_children[grp].children)
  /\ \E p \in GhIssueCreateRuns(200 + created_ok + 1) :
       LET child_num == create_issue(p)
       IN  /\ child_nums' = IF Truthy(child_num) THEN Append(child_nums, child_num)
                            ELSE child_nums
           /\ created_ok' = IF IsInt(child_num) THEN created_ok + 1 ELSE created_ok
  /\ total_created' = total_created + 1
  /\ child' = child + 1
  /\ UNCHANGED <<compareVars, parseVars, remaining_tickets, parent_children, grp, pcCreate,
                 reported>>

\* The children of the group are done: the parent's checklist is updated
\* when a child was created, and the next group follows.
ParentDone ==
  /\ pcCreate = "children"
  /\ child > Len(parent_children[grp].children)
  /\ grp' = grp + 1
  /\ pcCreate' = "parents"
  /\ UNCHANGED <<compareVars, parseVars, remaining_tickets, parent_children, child, child_nums,
                 total_created, reported, created_ok>>

\* The loop is over: 'Total tickets created' is printed.
ReportTotals ==
  /\ pcCreate = "parents"
  /\ grp > Len(parent_children)
  /\ reported' = PyInt(total_created)
  /\ pcCreate' = "done"
  /\ UNCHANGED <<compareVars, parseVars, remaining_tickets, parent_children, grp, child,
                 child_nums, total_created, created_ok>>

NextCreate ==
  \/ GroupTickets
  \/ ParentNotFound
  \/ ParentFound
  \/ CreateChild
  \/ ParentDone
  \/ ReportTotals

SpecCreate == InitCreate /\ [][NextCreate]_vars

\* C30: the total that create_all_remaining.main reports as created is the
\* number of tickets for which create_issue returned an issue number.
C30_ReportedIsCreated ==
  pcCreate = "done" => reported = PyInt(created_ok)

====
